---- MODULE Spec2Model ----
(***************************************************************************)
(* Cost-optimization decision logic of the AI starter kit:                 *)
(*   scripts/cost-optimization-automation.py  (CostOptimizationManager)    *)
(*   scripts/cost-optimization-lambda.py      (AIStarterKitCostOptimizer)  *)
(*                                                                         *)
(* Utilization percentages are integers; an average sum/len is compared    *)
(* with a threshold t as sum >= t * len, which is what the correctly       *)
(* rounded float division decides for integer samples.                     *)
(***************************************************************************)
EXTENDS Integers, Sequences, FiniteSets, TLC

VARIABLES
    asg_name,             \* CostOptimizationManager.asg_name ("none" for None)
    asg,                  \* the auto-scaling group as the provider holds it
    pc,                   \* control location of the running handler
    current_utilization,  \* implement_auto_scaling / generate_cost_report local
    signal,               \* what get_metric_statistics gave for the observed instance
    caps,                 \* current_capacity, min_capacity, max_capacity read in this run
    instances_left,       \* check_idle_instances: instances of the group still to query
    idle_instances,       \* check_idle_instances: the idle list built so far
    calls,                \* set_desired_capacity calls sent in this run
    spot_prices,          \* generate_cost_report local
    savings_analysis,     \* generate_cost_report local
    estimated_daily_cost, \* generate_cost_report local
    alerts,               \* _send_cost_alert calls of this run
    report,               \* generate_cost_report's report
    result,               \* what lambda_handler returned
    idle_resources,       \* the Lambda's check_idle_resources list of this invocation
    metrics,              \* _is_instance_idle: the metrics argument
    verdict,              \* _is_instance_idle: the value returned
    cycle,                \* run_optimization_cycle: the step it has reached
    sns_topic_arn,        \* AIStarterKitCostOptimizer.sns_topic_arn ("none" for None)
    spot_price_analysis,  \* generate_comprehensive_report: report['spot_price_analysis']
    cost_insights,        \* generate_comprehensive_report: report['cost_insights']
    scaling_optimizations,\* generate_comprehensive_report: report['scaling_optimizations']
    recommendations,      \* generate_comprehensive_report: report['recommendations']
    alert_data,           \* the alert_data of each send_cost_alert call of this run
    published,            \* sns.publish calls of this run
    external_calls,       \* which provider calls of this run returned and which raised
    spot_price_history,   \* a SpotPriceHistory the provider returned
    current_price,        \* the current prices both scripts derive from it
    observed,             \* observer outputs fed to the report generators
    runs,                 \* the recommendation lists of successive runs on observed
    scaling_runs,         \* each concurrent implement_auto_scaling run: its position and locals
    capacity_before,      \* DesiredCapacity of the group before the concurrent runs started
    document,             \* TemplateValidator.validate_file: the file it is given
    validation_errors,    \* TemplateValidator.validate_file: the list it returns
    schedule_loop,        \* setup_scheduled_optimization: whether its loop runs, and the job it ran last
    tasks,                \* crawl server: the tasks dict, task id -> entry
    background,           \* crawl server: the process_task coroutines created and not finished
    returned,             \* crawl server: the task ids POST /crawl has returned, in order
    get_response,         \* crawl server: the last answer of GET /task/{task_id}
    markdown_files,       \* validate-all-docs main: the files find_markdown_files found
    validation_run        \* validate-all-docs main: its position, counters and exit code

vars == <<asg_name, asg, pc, current_utilization, signal, caps,
          instances_left, idle_instances, calls, spot_prices, savings_analysis,
          estimated_daily_cost, alerts, report, result, idle_resources,
          metrics, verdict, cycle, sns_topic_arn, spot_price_analysis,
          cost_insights, scaling_optimizations, recommendations, alert_data,
          published, external_calls, spot_price_history, current_price,
          observed, runs,
          scaling_runs,
          capacity_before,
          document,
          validation_errors,
          schedule_loop,
          tasks,
          background,
          returned,
          get_response,
          markdown_files,
          validation_run>>

\* the variables of the concurrent runs and of the other programs
concurrentVars == <<scaling_runs, capacity_before>>
validatorVars == <<document, validation_errors>>
scheduleVars == <<schedule_loop>>
crawlVars == <<tasks, background, returned, get_response>>
mainVars == <<markdown_files, validation_run>>
otherVars == <<concurrentVars, validatorVars, scheduleVars, crawlVars, mainVars>>

---------------------------------------------------------------------------
(* Bounds of the model *)

\* longest utilization sequence handed to _is_instance_idle
MaxSamples == 2
\* largest MaxSize of an auto-scaling group
MaxSize == 5
\* most datapoints one get_metric_statistics response carries
MaxDatapoints == 2
\* most instances a group lists
MaxInstances == 2
\* most samples one describe_spot_price_history response carries
MaxHistory == 1
\* most scaling activities one describe_scaling_activities response carries
MaxActivities == 2
\* hours an idle instance has been running when it is checked
observed_runtime_hours == 10
\* number of leading entries of instance_types the Lambda's price stage analyses
MaxTypes == 2
\* most samples of the history the current prices are derived from
MaxPriceSamples == 2
\* latest timestamp a sample of that history carries
MaxTimestamp == 2
\* implement_auto_scaling runs in progress at the same time
MaxRuns == 2
\* POST /crawl requests the server accepts in a run
MaxTasks == 3
\* markdown files find_markdown_files finds in the workspace
MaxFiles == 3

(* Program constants *)

\* CostOptimizationConfig.max_spot_price, in cents per hour
max_spot_price == 75
\* CostOptimizationConfig.target_utilization
target_utilization == 70
\* CostOptimizationConfig.scale_down_threshold
scale_down_threshold == 20
\* CostOptimizationConfig.cost_alert_threshold, in cents per day
cost_alert_threshold == 5000
\* generate_cost_report: the utilization below which it recommends scaling down
low_utilization_mark == 30
\* generate_cost_report: the savings percentage above which it recommends a type
savings_mark == 50
\* optimize_auto_scaling: the max size it never recommends beyond
max_size_ceiling == 10
\* _calculate_instance_cost: hourly_rates['g4dn.xlarge'], in cents
g4dn_xlarge_hourly_rate == 35
\* _is_instance_idle: GPU utilization threshold
gpu_idle_threshold == 5
\* _is_instance_idle: GPU memory utilization threshold
gpu_memory_idle_threshold == 10
\* _is_instance_idle: CPU utilization threshold
cpu_idle_threshold == 10
\* cost_thresholds['monthly_warning'], in dollars
monthly_warning == 1000
\* cost_thresholds['monthly_critical'], in dollars
monthly_critical == 2000
\* generate_comprehensive_report: the max_savings_percent above which it
\* recommends a type
spot_savings_mark == 60
\* _validate_metadata: the longest abstract it accepts
max_abstract_length == 100

---------------------------------------------------------------------------
(* Helpers *)

RECURSIVE SeqSum(_)
SeqSum(s) == IF s = <<>> THEN 0 ELSE Head(s) + SeqSum(Tail(s))

Min2(a, b) == IF a <= b THEN a ELSE b
Max2(a, b) == IF a >= b THEN a ELSE b

SeqsUpTo(S, n) == UNION {[1..k -> S] : k \in 0..n}

\* sum(xs) / len(xs) >= t, for a non-empty xs
AvgAtLeast(xs, t) == SeqSum(xs) >= t * Len(xs)
\* sum(xs) / len(xs) < t, for a non-empty xs
AvgBelow(xs, t) == SeqSum(xs) < t * Len(xs)

---------------------------------------------------------------------------
(* AIStarterKitCostOptimizer._is_instance_idle *)

is_instance_idle_lax(m) ==
    LET gpu_util   == m.GPUUtilization
        gpu_memory == m.GPUMemoryUtilization
        cpu_util   == m.CPUUtilization
    IN  IF Len(gpu_util) > 0 /\ SeqSum(gpu_util) > gpu_idle_threshold * Len(gpu_util)
            THEN FALSE
        ELSE IF Len(gpu_memory) > 0 /\ AvgAtLeast(gpu_memory, gpu_memory_idle_threshold)
            THEN FALSE
        ELSE IF Len(cpu_util) > 0 /\ AvgAtLeast(cpu_util, cpu_idle_threshold)
            THEN FALSE
        ELSE IF gpu_util = <<>> /\ gpu_memory = <<>> /\ cpu_util = <<>>
            THEN FALSE
        ELSE TRUE

is_instance_idle(m) ==
    LET gpu_util   == m.GPUUtilization
        gpu_memory == m.GPUMemoryUtilization
        cpu_util   == m.CPUUtilization
    IN  IF Len(gpu_util) > 0 /\ AvgAtLeast(gpu_util, gpu_idle_threshold)
            THEN FALSE
        ELSE IF Len(gpu_memory) > 0 /\ AvgAtLeast(gpu_memory, gpu_memory_idle_threshold)
            THEN FALSE
        ELSE IF Len(cpu_util) > 0 /\ AvgAtLeast(cpu_util, cpu_idle_threshold)
            THEN FALSE
        \* not any([gpu_util, gpu_memory, cpu_util]): all three are empty
        ELSE IF gpu_util = <<>> /\ gpu_memory = <<>> /\ cpu_util = <<>>
            THEN FALSE
        ELSE TRUE

\* utilization samples handed to the classifier, around each threshold
GpuSamples == {1, 5, 6}
GpuMemorySamples == {5, 10, 12}
CpuSamples == {1, 10, 12}

\* the specification's worked example: averages 3.0, 5.5, 1.5
ExampleMetrics ==
    [GPUUtilization |-> <<2, 3, 4>>, GPUMemoryUtilization |-> <<5, 6>>,
     CPUUtilization |-> <<1, 2>>]

MetricInputs ==
    [GPUUtilization : SeqsUpTo(GpuSamples, MaxSamples),
     GPUMemoryUtilization : SeqsUpTo(GpuMemorySamples, MaxSamples),
     CPUUtilization : SeqsUpTo(CpuSamples, MaxSamples)] \cup {ExampleMetrics}

NoMetrics ==
    [GPUUtilization |-> <<>>, GPUMemoryUtilization |-> <<>>, CPUUtilization |-> <<>>]

\* check_idle_resources: is_idle = self._is_instance_idle(gpu_metrics, instance_id)
classify_instance ==
    /\ verdict = "unset"
    /\ verdict' = IF is_instance_idle(metrics) THEN "idle" ELSE "not_idle"
    /\ UNCHANGED <<asg_name, asg, pc, current_utilization, signal, caps,
                   instances_left, idle_instances, calls, spot_prices,
                   savings_analysis, estimated_daily_cost, alerts, report, result,
                   idle_resources, metrics, cycle, sns_topic_arn,
                   spot_price_analysis, cost_insights, scaling_optimizations,
                   recommendations, alert_data, published, external_calls,
                   spot_price_history, current_price, observed, runs, otherVars>>

---------------------------------------------------------------------------
(* The provider: auto-scaling groups and CloudWatch metrics *)

\* MinSize <= DesiredCapacity <= MaxSize, as the provider keeps every group
AsgConfigs ==
    {g \in [MinSize : 0..MaxSize, DesiredCapacity : 0..MaxSize, MaxSize : 0..MaxSize] :
        g.MinSize <= g.DesiredCapacity /\ g.DesiredCapacity <= g.MaxSize}

NoGroup == [MinSize |-> 0, DesiredCapacity |-> 0, MaxSize |-> 0]

\* GPUUtilization averages the provider reports
UtilValues == {0, 10, 20, 25, 30, 70, 85}

\* get_metric_statistics: an exception, or a response carrying Datapoints
MetricResponses ==
    {[ok |-> FALSE, Datapoints |-> <<>>]} \cup
    {[ok |-> TRUE, Datapoints |-> s] : s \in SeqsUpTo(UtilValues, MaxDatapoints)}

\* the provider's answer to set_desired_capacity: a value outside
\* [MinSize, MaxSize] is rejected, and any call may fail
provider_set_desired_capacity(g, v, accepted) ==
    IF accepted /\ g.MinSize <= v /\ v <= g.MaxSize
    THEN [g EXCEPT !.DesiredCapacity = v]
    ELSE g

---------------------------------------------------------------------------
(* CostOptimizationManager.get_gpu_utilization *)

get_gpu_utilization(resp) ==
    IF ~resp.ok THEN 0
    ELSE IF Len(resp.Datapoints) > 0 THEN resp.Datapoints[Len(resp.Datapoints)]
    ELSE 0

\* what the metrics call gave: an exception, no datapoint, or an observation
signal_of(resp) ==
    IF ~resp.ok THEN "failed"
    ELSE IF Len(resp.Datapoints) > 0 THEN "observed"
    ELSE "empty"

---------------------------------------------------------------------------
(* Spot prices: get_current_spot_prices, get_on_demand_prices,              *)
(* calculate_potential_savings. Prices are in cents per hour.               *)

\* the instance types whose samples the provider returns in this model
PricedTypes == {"g4dn.xlarge", "g5.xlarge"}
SpotPriceValues == {30, 250}
Timestamps == {1}

SpotPriceSamples ==
    [InstanceType : PricedTypes, SpotPrice : SpotPriceValues, Timestamp : Timestamps]

\* describe_spot_price_history: an exception, or a SpotPriceHistory
SpotPriceResponses ==
    {[ok |-> FALSE, SpotPriceHistory |-> <<>>]} \cup
    {[ok |-> TRUE, SpotPriceHistory |-> h] : h \in SeqsUpTo(SpotPriceSamples, MaxHistory)}

\* a dict is the sequence of its items in insertion order
HasKey(d, k) == \E i \in 1..Len(d) : d[i].key = k
IndexOf(d, k) == CHOOSE i \in 1..Len(d) : d[i].key = k
Lookup(d, k) == d[IndexOf(d, k)]

\* the loop body of get_current_spot_prices
RECURSIVE current_prices_of(_, _)
current_prices_of(history, current_prices) ==
    IF history = <<>> THEN current_prices
    ELSE LET price == Head(history)
             item == [key |-> price.InstanceType, price |-> price.SpotPrice,
                      timestamp |-> price.Timestamp]
             next ==
                 IF ~HasKey(current_prices, price.InstanceType)
                 THEN Append(current_prices, item)
                 ELSE IF price.Timestamp >
                         Lookup(current_prices, price.InstanceType).timestamp
                 THEN [current_prices EXCEPT
                          ![IndexOf(current_prices, price.InstanceType)] = item]
                 ELSE current_prices
         IN  current_prices_of(Tail(history), next)

get_current_spot_prices(resp) ==
    IF resp.ok THEN current_prices_of(resp.SpotPriceHistory, <<>>) ELSE <<>>

get_on_demand_prices ==
    [t \in {"g4dn.xlarge", "g4dn.2xlarge", "g4ad.xlarge", "g5.xlarge"} |->
        CASE t = "g4dn.xlarge" -> 119
          [] t = "g4dn.2xlarge" -> 238
          [] t = "g4ad.xlarge" -> 95
          [] t = "g5.xlarge" -> 121]

\* calculate_potential_savings, from the prices its own lookup returned;
\* savings_percent is hourly_savings / on_demand_price * 100
RECURSIVE savings_of(_)
savings_of(prices) ==
    IF prices = <<>> THEN <<>>
    ELSE LET p == Head(prices)
         IN  IF p.key \in DOMAIN get_on_demand_prices
             THEN <<[key |-> p.key,
                     spot_price |-> p.price,
                     on_demand_price |-> get_on_demand_prices[p.key],
                     hourly_savings |-> get_on_demand_prices[p.key] - p.price,
                     daily_savings |-> (get_on_demand_prices[p.key] - p.price) * 24,
                     monthly_savings |->
                         (get_on_demand_prices[p.key] - p.price) * 24 * 30]>>
                  \o savings_of(Tail(prices))
             ELSE savings_of(Tail(prices))

calculate_potential_savings(resp) == savings_of(get_current_spot_prices(resp))

\* analysis['savings_percent'] > pct
SavingsPercentAbove(a, pct) == a.hourly_savings * 100 > pct * a.on_demand_price

---------------------------------------------------------------------------
(* CostOptimizationManager.generate_cost_report and monitor_daily_costs *)

NoReport ==
    [generated |-> FALSE, current_gpu_utilization |-> 0, estimated_daily_cost |-> 0,
     spot_prices |-> <<>>, savings_analysis |-> <<>>, recommendations |-> <<>>]

NoResult == [statusCode |-> 0, kind |-> "none", optimizations |-> <<>>]

\* min(savings_analysis.items(), key=lambda x: x[1]['spot_price']): the first
\* item of least spot price
best_instance(savings) ==
    savings[CHOOSE i \in 1..Len(savings) :
                /\ \A j \in 1..Len(savings) : savings[i].spot_price <= savings[j].spot_price
                /\ \A j \in 1..(i - 1) : savings[j].spot_price > savings[i].spot_price]

\* if current_utilization < 30
low_utilization_recommended(util, sig) == util < low_utilization_mark

recommendations_of(util, sig, daily_cost, savings) ==
    (IF low_utilization_recommended(util, sig)
     THEN <<[kind |-> "low_gpu_utilization", instance_type |-> "-"]>> ELSE <<>>)
    \o (IF daily_cost > cost_alert_threshold
        THEN <<[kind |-> "daily_cost_exceeds", instance_type |-> "-"]>> ELSE <<>>)
    \o (IF savings # <<>> /\ SavingsPercentAbove(best_instance(savings), savings_mark)
        THEN <<[kind |-> "consider_type", instance_type |-> best_instance(savings).key]>>
        ELSE <<>>)

\* monitor_daily_costs: hourly_cost * 24 of the configured instance type, or 0.0
daily_cost_of(prices) ==
    IF HasKey(prices, "g4dn.xlarge") THEN Lookup(prices, "g4dn.xlarge").price * 24 ELSE 0

---------------------------------------------------------------------------
(* CostOptimizationManager.implement_auto_scaling *)

lambdaVars == <<result, idle_resources>>
idleVars == <<metrics, verdict>>
cycleVars == <<cycle>>
comprehensiveVars == <<sns_topic_arn, spot_price_analysis, cost_insights,
                       scaling_optimizations, recommendations, alert_data, published,
                       external_calls>>
pureVars == <<spot_price_history, current_price, observed, runs>>
envVars == <<asg_name>>
reportVars == <<spot_prices, savings_analysis, estimated_daily_cost, alerts>>

\* the branch implement_auto_scaling takes after reading the group
scaling_branch_lax(util, c) ==
    IF util >= target_utilization /\ c.DesiredCapacity < c.MaxSize THEN "scale_up"
    ELSE IF util <= scale_down_threshold /\ c.DesiredCapacity > c.MinSize THEN "check_idle"
    ELSE "none"

scaling_branch_unbounded(util, c) ==
    IF util > target_utilization THEN "scale_up"
    ELSE IF util < scale_down_threshold THEN "check_idle"
    ELSE "none"

scaling_branch(util, c) ==
    IF util > target_utilization /\ c.DesiredCapacity < c.MaxSize THEN "scale_up"
    ELSE IF util < scale_down_threshold /\ c.DesiredCapacity > c.MinSize THEN "check_idle"
    ELSE "none"

scale_down_gate_open(idle) == TRUE

\* if len(idle_instances) > 0
scale_down_gate(idle) == Len(idle) > 0

scale_up_capacity_jump(c) == Min2(c.DesiredCapacity + 2, c.MaxSize)

\* new_capacity = min(current_capacity + 1, max_capacity)
scale_up_capacity(c) == Min2(c.DesiredCapacity + 1, c.MaxSize)

\* new_capacity = max(current_capacity - 1, min_capacity)
scale_down_capacity(c) == Max2(c.DesiredCapacity - 1, c.MinSize)

\* the handler starts: current_utilization = self.get_gpu_utilization(),
\* then returns when there is no group name
implement_auto_scaling_start ==
    /\ pc = "idle"
    /\ \E resp \in MetricResponses :
          /\ current_utilization' = get_gpu_utilization(resp)
          /\ signal' = signal_of(resp)
    /\ pc' = IF asg_name = "none" THEN "done" ELSE "ias_describe"
    /\ UNCHANGED <<envVars, asg, caps, instances_left, idle_instances, calls, report,
                   reportVars, lambdaVars, idleVars,
                   cycleVars, comprehensiveVars, pureVars, otherVars>>

\* describe_auto_scaling_groups and the threshold comparisons
implement_auto_scaling_describe ==
    /\ pc = "ias_describe"
    /\ \E outcome \in {"raise", "no_group", "group"} :
          IF outcome = "group"
          THEN /\ caps' = asg
               /\ pc' = CASE scaling_branch(current_utilization, asg) = "scale_up"
                               -> "ias_scale_up"
                          [] scaling_branch(current_utilization, asg) = "check_idle"
                               -> "ias_check_idle"
                          [] OTHER -> "done"
          ELSE /\ caps' = caps
               /\ pc' = "done"
    /\ UNCHANGED <<envVars, asg, current_utilization, signal, instances_left,
                   idle_instances, calls, report, reportVars, lambdaVars, idleVars,
                   cycleVars, comprehensiveVars, pureVars, otherVars>>

\* set_desired_capacity of the scale-up branch
implement_auto_scaling_scale_up ==
    /\ pc = "ias_scale_up"
    /\ calls' = Append(calls, [DesiredCapacity |-> scale_up_capacity(caps),
                               branch |-> "scale_up"])
    /\ \E accepted \in BOOLEAN :
          asg' = provider_set_desired_capacity(asg, scale_up_capacity(caps), accepted)
    /\ pc' = "done"
    /\ UNCHANGED <<envVars, current_utilization, signal, caps, instances_left,
                   idle_instances, report, reportVars, lambdaVars, idleVars,
                   cycleVars, comprehensiveVars, pureVars, otherVars>>

\* check_idle_instances starts: describe_auto_scaling_groups gives the group's
\* instances, or nothing (no group, or an exception: the empty list is returned)
implement_auto_scaling_check_idle ==
    /\ pc = "ias_check_idle"
    /\ idle_instances' = <<>>
    /\ \E outcome \in {"raise", "no_group", "group"} :
          IF outcome = "group"
          THEN \E n \in 0..MaxInstances :
                  /\ instances_left' = n
                  /\ pc' = IF n = 0 THEN "done" ELSE "ias_idle_loop"
          ELSE /\ instances_left' = 0
               /\ pc' = "done"
    /\ UNCHANGED <<envVars, asg, current_utilization, signal, caps, calls, report,
                   reportVars, lambdaVars, idleVars,
                   cycleVars, comprehensiveVars, pureVars, otherVars>>

\* check_idle_instances, the test of one instance's datapoints
instance_is_idle(resp) ==
    /\ resp.Datapoints # <<>>
    /\ AvgBelow(resp.Datapoints, scale_down_threshold)

\* one iteration of check_idle_instances' loop; an exception ends the loop with
\* the list built so far; after the loop implement_auto_scaling tests the list
implement_auto_scaling_idle_loop ==
    /\ pc = "ias_idle_loop"
    /\ instances_left > 0
    /\ \E resp \in MetricResponses :
          LET found ==
                  IF resp.ok /\ instance_is_idle(resp)
                  THEN Append(idle_instances,
                              [observed |-> Len(resp.Datapoints),
                               below |-> resp.Datapoints # <<>> /\
                                   AvgBelow(resp.Datapoints, scale_down_threshold)])
                  ELSE idle_instances
              left == IF resp.ok THEN instances_left - 1 ELSE 0
          IN  /\ idle_instances' = found
              /\ instances_left' = left
              /\ pc' = IF left > 0 THEN "ias_idle_loop"
                       ELSE IF scale_down_gate(found) THEN "ias_scale_down"
                       ELSE "done"
    /\ UNCHANGED <<envVars, asg, current_utilization, signal, caps, calls, report,
                   reportVars, lambdaVars, idleVars,
                   cycleVars, comprehensiveVars, pureVars, otherVars>>

\* set_desired_capacity of the scale-down branch
implement_auto_scaling_scale_down ==
    /\ pc = "ias_scale_down"
    /\ calls' = Append(calls, [DesiredCapacity |-> scale_down_capacity(caps),
                               branch |-> "scale_down"])
    /\ \E accepted \in BOOLEAN :
          asg' = provider_set_desired_capacity(asg, scale_down_capacity(caps), accepted)
    /\ pc' = "done"
    /\ UNCHANGED <<envVars, current_utilization, signal, caps, instances_left,
                   idle_instances, report, reportVars, lambdaVars, idleVars,
                   cycleVars, comprehensiveVars, pureVars, otherVars>>

---------------------------------------------------------------------------
(* implement_auto_scaling, several runs at once on the same group: each run   *)
(* has its own locals, the group is the provider's; one step per call that    *)
(* reads or writes the group                                                   *)

ScalingRuns == 1..MaxRuns

ConcurrentGroups == {g \in AsgConfigs : g.MinSize = 1 /\ g.MaxSize = 4}

\* a run that has not started, or has returned
NoRun == [pc |-> "idle", current_utilization |-> 0, caps |-> NoGroup]

\* current_utilization = self.get_gpu_utilization()
concurrent_scaling_start ==
    \E r \in ScalingRuns, resp \in MetricResponses :
        /\ scaling_runs[r] = NoRun
        /\ scaling_runs' =
               [scaling_runs EXCEPT ![r] =
                   [pc |-> "ias_describe",
                    current_utilization |-> get_gpu_utilization(resp),
                    caps |-> NoGroup]]
        /\ UNCHANGED <<envVars, asg, pc, current_utilization, signal, caps,
                       instances_left, idle_instances, calls, report, reportVars,
                       lambdaVars, idleVars,
                       cycleVars, comprehensiveVars, pureVars, capacity_before,
                       validatorVars, scheduleVars, crawlVars,
                   mainVars>>

\* describe_auto_scaling_groups and the threshold comparisons on what it gave
concurrent_scaling_describe ==
    \E r \in ScalingRuns, outcome \in {"raise", "no_group", "group"} :
        LET run == scaling_runs[r]
            branch == scaling_branch(run.current_utilization, asg)
        IN  /\ run.pc = "ias_describe"
            /\ scaling_runs' =
                   [scaling_runs EXCEPT ![r] =
                       IF outcome = "group" /\ branch = "scale_up"
                       THEN [run EXCEPT !.pc = "ias_scale_up", !.caps = asg]
                       ELSE IF outcome = "group" /\ branch = "check_idle"
                       THEN [run EXCEPT !.pc = "ias_check_idle", !.caps = asg]
                       ELSE [NoRun EXCEPT !.pc = "done"]]
            /\ UNCHANGED <<envVars, asg, pc, current_utilization, signal, caps,
                       instances_left, idle_instances, calls, report, reportVars,
                       lambdaVars, idleVars,
                           cycleVars, comprehensiveVars, pureVars, capacity_before,
                       validatorVars, scheduleVars, crawlVars,
                   mainVars>>

\* set_desired_capacity of the scale-up branch, with the capacity this run read
concurrent_scaling_scale_up ==
    \E r \in ScalingRuns, accepted \in BOOLEAN :
        LET run == scaling_runs[r]
        IN  /\ run.pc = "ias_scale_up"
            /\ asg' = provider_set_desired_capacity(asg, scale_up_capacity(run.caps),
                                                    accepted)
            /\ scaling_runs' = [scaling_runs EXCEPT ![r] = [NoRun EXCEPT !.pc = "done"]]
            /\ UNCHANGED <<envVars, pc, current_utilization, signal, caps,
                       instances_left, idle_instances, calls, report, reportVars,
                       lambdaVars, idleVars,
                           cycleVars, comprehensiveVars, pureVars, capacity_before,
                       validatorVars, scheduleVars, crawlVars,
                   mainVars>>

\* idle_instances = self.check_idle_instances(), which reads metrics only
concurrent_scaling_check_idle ==
    \E r \in ScalingRuns, idle \in SeqsUpTo({"i-1"}, 1) :
        LET run == scaling_runs[r]
        IN  /\ run.pc = "ias_check_idle"
            /\ scaling_runs' =
                   [scaling_runs EXCEPT ![r] =
                       IF scale_down_gate(idle)
                       THEN [run EXCEPT !.pc = "ias_scale_down"]
                       ELSE [NoRun EXCEPT !.pc = "done"]]
            /\ UNCHANGED <<envVars, asg, pc, current_utilization, signal, caps,
                       instances_left, idle_instances, calls, report, reportVars,
                       lambdaVars, idleVars,
                           cycleVars, comprehensiveVars, pureVars, capacity_before,
                       validatorVars, scheduleVars, crawlVars,
                   mainVars>>

\* set_desired_capacity of the scale-down branch
concurrent_scaling_scale_down ==
    \E r \in ScalingRuns, accepted \in BOOLEAN :
        LET run == scaling_runs[r]
        IN  /\ run.pc = "ias_scale_down"
            /\ asg' = provider_set_desired_capacity(asg, scale_down_capacity(run.caps),
                                                    accepted)
            /\ scaling_runs' = [scaling_runs EXCEPT ![r] = [NoRun EXCEPT !.pc = "done"]]
            /\ UNCHANGED <<envVars, pc, current_utilization, signal, caps,
                       instances_left, idle_instances, calls, report, reportVars,
                       lambdaVars, idleVars,
                           cycleVars, comprehensiveVars, pureVars, capacity_before,
                       validatorVars, scheduleVars, crawlVars,
                   mainVars>>

---------------------------------------------------------------------------
(* generate_cost_report, one step per provider lookup *)

\* the handler starts: spot_prices = self.get_current_spot_prices()
generate_cost_report_start ==
    /\ pc = "idle"
    /\ \E resp \in SpotPriceResponses : spot_prices' = get_current_spot_prices(resp)
    /\ pc' = "gcr_savings"
    /\ UNCHANGED <<envVars, asg, current_utilization, signal, caps, instances_left,
                   idle_instances, calls, savings_analysis, estimated_daily_cost,
                   alerts, report, lambdaVars, idleVars,
                   cycleVars, comprehensiveVars, pureVars, otherVars>>

\* savings_analysis = self.calculate_potential_savings(), a lookup of its own
generate_cost_report_savings ==
    /\ pc = "gcr_savings"
    /\ \E resp \in SpotPriceResponses :
          savings_analysis' = calculate_potential_savings(resp)
    /\ pc' = "gcr_utilization"
    /\ UNCHANGED <<envVars, asg, current_utilization, signal, caps, instances_left,
                   idle_instances, calls, spot_prices, estimated_daily_cost, alerts,
                   report, lambdaVars, idleVars,
                   cycleVars, comprehensiveVars, pureVars, otherVars>>

\* current_utilization = self.get_gpu_utilization()
generate_cost_report_utilization ==
    /\ pc = "gcr_utilization"
    /\ \E resp \in MetricResponses :
          /\ current_utilization' = get_gpu_utilization(resp)
          /\ signal' = signal_of(resp)
    /\ pc' = "gcr_monitor"
    /\ UNCHANGED <<envVars, asg, caps, instances_left, idle_instances, calls,
                   reportVars, report, lambdaVars, idleVars,
                   cycleVars, comprehensiveVars, pureVars, otherVars>>

\* estimated_daily_cost = self.monitor_daily_costs(), a third price lookup with
\* the alert, then the report and its recommendations
generate_cost_report_monitor ==
    /\ pc = "gcr_monitor"
    /\ \E resp \in SpotPriceResponses :
          LET cost == daily_cost_of(get_current_spot_prices(resp))
          IN  /\ estimated_daily_cost' = cost
              /\ alerts' = IF cost > cost_alert_threshold THEN alerts + 1 ELSE alerts
              /\ report' =
                    [generated |-> TRUE,
                     current_gpu_utilization |-> current_utilization,
                     estimated_daily_cost |-> cost,
                     spot_prices |-> spot_prices,
                     savings_analysis |-> savings_analysis,
                     recommendations |->
                         recommendations_of(current_utilization, signal, cost,
                                            savings_analysis)]
    /\ pc' = "done"
    /\ UNCHANGED <<envVars, asg, current_utilization, signal, caps, instances_left,
                   idle_instances, calls, spot_prices, savings_analysis, lambdaVars,
                   idleVars,
                   cycleVars, comprehensiveVars, pureVars, otherVars>>

---------------------------------------------------------------------------
(* AIStarterKitCostOptimizer.optimize_auto_scaling, through lambda_handler *)

\* the Description of a scaling activity, as far as the two substring tests see it
ActivityKinds == {"scale up", "scale down", "other"}

\* describe_scaling_activities: an exception, or the Activities
ActivityResponses ==
    {[ok |-> FALSE, Activities |-> <<>>]} \cup
    {[ok |-> TRUE, Activities |-> a] : a \in SeqsUpTo(ActivityKinds, MaxActivities)}

RECURSIVE CountKind(_, _)
CountKind(activities, kind) ==
    IF activities = <<>> THEN 0
    ELSE (IF Head(activities) = kind THEN 1 ELSE 0) + CountKind(Tail(activities), kind)

reduce_capacity_recommended_at_min(g, scale_ups) == scale_ups = 0

\* if recent_scale_ups == 0 and current_capacity > min_size
reduce_capacity_recommended(g, scale_ups) ==
    scale_ups = 0 /\ g.DesiredCapacity > g.MinSize

\* 'recommended': max(min_size, current_capacity - 1)
reduced_capacity(g) == Max2(g.MinSize, g.DesiredCapacity - 1)

\* 'recommended': min(10, max_size + 2)
increased_max_capacity(g) == Min2(max_size_ceiling, g.MaxSize + 2)

group_recommendations_both(g, scale_ups, scale_downs) ==
    (IF reduce_capacity_recommended(g, scale_ups)
     THEN <<[type |-> "reduce_capacity", current |-> g.DesiredCapacity,
             recommended |-> reduced_capacity(g)]>>
     ELSE <<>>)
    \o (IF scale_ups >= scale_downs /\ g.MaxSize < max_size_ceiling
        THEN <<[type |-> "increase_max_capacity", current |-> g.MaxSize,
                recommended |-> increased_max_capacity(g)]>>
        ELSE <<>>)

\* the recommendations of one tagged group
group_recommendations(g, scale_ups, scale_downs) ==
    (IF reduce_capacity_recommended(g, scale_ups)
     THEN <<[type |-> "reduce_capacity", current |-> g.DesiredCapacity,
             recommended |-> reduced_capacity(g)]>>
     ELSE <<>>)
    \o (IF scale_ups > scale_downs /\ g.MaxSize < max_size_ceiling
        THEN <<[type |-> "increase_max_capacity", current |-> g.MaxSize,
                recommended |-> increased_max_capacity(g)]>>
        ELSE <<>>)

\* the optimizations list for the groups the provider returned
optimize_auto_scaling(g, tagged, activities) ==
    IF ~tagged THEN <<>>
    ELSE LET scale_ups == CountKind(activities, "scale up")
             scale_downs == CountKind(activities, "scale down")
         IN  <<[current_config |-> g,
                recent_activities |->
                    [scale_ups |-> scale_ups, scale_downs |-> scale_downs],
                recommendations |-> group_recommendations(g, scale_ups, scale_downs)]>>

lambda_capacity_calls_applied(optimizations) ==
    IF optimizations # <<>> /\ optimizations[1].recommendations # <<>>
    THEN <<[DesiredCapacity |-> optimizations[1].recommendations[1].recommended,
            branch |-> optimizations[1].recommendations[1].type]>>
    ELSE <<>>

\* the set_desired_capacity calls optimize_auto_scaling sends: none, its
\* recommendations are only returned
lambda_capacity_calls(optimizations) == <<>>

\* the handler has returned: its locals and its result are gone
handler_return ==
    /\ pc = "done"
    /\ pc' = "idle"
    /\ result' = NoResult
    /\ idle_resources' = <<>>
    /\ current_utilization' = 0
    /\ signal' = "none"
    /\ caps' = NoGroup
    /\ instances_left' = 0
    /\ idle_instances' = <<>>
    /\ calls' = <<>>
    /\ spot_prices' = <<>>
    /\ savings_analysis' = <<>>
    /\ estimated_daily_cost' = 0
    /\ alerts' = 0
    /\ report' = NoReport
    /\ UNCHANGED <<envVars, asg, idleVars,
                   cycleVars, comprehensiveVars, pureVars, otherVars>>

\* lambda_handler with action 'scaling_optimization': an exception inside
\* optimize_auto_scaling gives {'error': ...}, returned with status 200
lambda_handler_scaling_optimization ==
    /\ pc = "idle"
    /\ idle_resources' = <<>>
    /\ \E outcome \in {"raise", "no_group", "group"}, tagged \in BOOLEAN,
          act \in ActivityResponses :
          LET failed == outcome = "raise" \/ (outcome = "group" /\ tagged /\ ~act.ok)
              optimizations ==
                  IF outcome = "group" /\ ~failed
                  THEN optimize_auto_scaling(asg, tagged, act.Activities)
                  ELSE <<>>
          IN  /\ result' = [statusCode |-> 200,
                            kind |-> IF failed THEN "error" ELSE "optimizations",
                            optimizations |-> optimizations]
              /\ calls' = lambda_capacity_calls(optimizations)
    /\ pc' = "done"
    /\ UNCHANGED <<envVars, asg, current_utilization, signal, caps, instances_left,
                   idle_instances, report, reportVars, idleVars,
                   cycleVars, comprehensiveVars, pureVars, otherVars>>

---------------------------------------------------------------------------
(* AIStarterKitCostOptimizer.check_idle_resources, through lambda_handler *)

\* the metrics of one running instance, as _get_instance_metrics returns them
InstanceMetrics ==
    {NoMetrics, ExampleMetrics,
     [GPUUtilization |-> <<>>, GPUMemoryUtilization |-> <<5>>, CPUUtilization |-> <<1>>],
     [GPUUtilization |-> <<6>>, GPUMemoryUtilization |-> <<12>>, CPUUtilization |-> <<12>>]}

\* _calculate_instance_cost for a g4dn.xlarge, in cents
calculate_instance_cost(runtime_hours) == g4dn_xlarge_hourly_rate * runtime_hours

RECURSIVE check_idle_resources(_)
check_idle_resources(instances) ==
    IF instances = <<>> THEN <<>>
    ELSE (IF is_instance_idle(Head(instances))
          THEN <<[instance_type |-> "g4dn.xlarge",
                  runtime_hours |-> observed_runtime_hours,
                  estimated_cost |-> calculate_instance_cost(observed_runtime_hours),
                  reason |-> "Low GPU utilization"]>>
          ELSE <<>>)
         \o check_idle_resources(Tail(instances))

\* lambda_handler with action 'idle_check': an exception of describe_instances
\* leaves check_idle_resources and is answered with status 500
lambda_handler_idle_check ==
    /\ pc = "idle"
    /\ \E ok \in BOOLEAN :
          IF ok
          THEN \E instances \in SeqsUpTo(InstanceMetrics, MaxInstances) :
                  /\ idle_resources' = check_idle_resources(instances)
                  /\ result' = [statusCode |-> 200, kind |-> "idle_resources",
                                optimizations |-> <<>>]
          ELSE /\ idle_resources' = <<>>
               /\ result' = [statusCode |-> 500, kind |-> "error",
                             optimizations |-> <<>>]
    /\ pc' = "done"
    /\ UNCHANGED <<envVars, asg, current_utilization, signal, caps, instances_left,
                   idle_instances, calls, report, reportVars, idleVars,
                   cycleVars, comprehensiveVars, pureVars, otherVars>>

---------------------------------------------------------------------------
(* AIStarterKitCostOptimizer._get_instance_metrics                          *)

MetricAverages == {1, 12}

\* the Datapoints of get_metric_statistics with Statistics=['Average'], in
\* whatever order the provider lists them
StatisticsDatapoints == [Timestamp : 1..MaxTimestamp, Average : MetricAverages]

\* one query: an exception, or a response carrying Datapoints
StatisticsResponses ==
    {[ok |-> FALSE, Datapoints |-> <<>>]} \cup
    {[ok |-> TRUE, Datapoints |-> s] :
        s \in SeqsUpTo(StatisticsDatapoints, MaxDatapoints)}

\* a failed query, an empty response and one listed latest first
FewStatisticsResponses ==
    {[ok |-> FALSE, Datapoints |-> <<>>],
     [ok |-> TRUE, Datapoints |-> <<>>],
     [ok |-> TRUE, Datapoints |-> <<[Timestamp |-> 2, Average |-> 12],
                                    [Timestamp |-> 1, Average |-> 1]>>]}

\* the answers to the three metric_queries of one instance
MetricQueryResponses ==
    [GPUUtilization : StatisticsResponses,
     GPUMemoryUtilization : FewStatisticsResponses,
     CPUUtilization : FewStatisticsResponses]

\* one step of the stable sort: point goes behind every point of sorted_points
\* whose Timestamp is not larger
RECURSIVE insert_by_timestamp(_, _)
insert_by_timestamp(point, sorted_points) ==
    IF sorted_points = <<>> THEN <<point>>
    ELSE IF point.Timestamp < Head(sorted_points).Timestamp
    THEN <<point>> \o sorted_points
    ELSE <<Head(sorted_points)>> \o insert_by_timestamp(point, Tail(sorted_points))

sorted_as_returned(points) == points

\* sorted(response['Datapoints'], key=lambda x: x['Timestamp'])
RECURSIVE sorted_by_timestamp(_)
sorted_by_timestamp(points) ==
    IF points = <<>> THEN <<>>
    ELSE insert_by_timestamp(points[Len(points)],
                             sorted_by_timestamp(SubSeq(points, 1, Len(points) - 1)))

\* metrics[query['name']]: the averages of the sorted datapoints, [] when the
\* query raised
metric_samples(response) ==
    IF ~response.ok THEN <<>>
    ELSE LET points == sorted_by_timestamp(response.Datapoints)
         IN  [i \in 1..Len(points) |-> points[i].Average]

get_instance_metrics(responses) ==
    [GPUUtilization |-> metric_samples(responses.GPUUtilization),
     GPUMemoryUtilization |-> metric_samples(responses.GPUMemoryUtilization),
     CPUUtilization |-> metric_samples(responses.CPUUtilization)]

\* gpu_metrics = self._get_instance_metrics(instance_id) on the answers in
\* observed
collect_instance_metrics ==
    /\ pc = "idle"
    /\ metrics' = get_instance_metrics(observed)
    /\ pc' = "done"
    /\ UNCHANGED <<asg_name, asg, current_utilization, signal, caps,
                   instances_left, idle_instances, calls, spot_prices,
                   savings_analysis, estimated_daily_cost, alerts, report, result,
                   idle_resources, verdict, cycle, sns_topic_arn,
                   spot_price_analysis, cost_insights, scaling_optimizations,
                   recommendations, alert_data, published, external_calls,
                   spot_price_history, current_price, observed, runs, otherVars>>

---------------------------------------------------------------------------
(* Values of the variables a specification does not use *)

NoInsights ==
    [kind |-> "none", current_month_cost |-> 0, cost_trend |-> "none",
     savings_opportunities |-> <<>>]
NoScaling == [kind |-> "none", optimizations |-> <<>>]
NoCurrent == [automation |-> <<>>, lambda |-> <<>>]
NoObserved == <<>>
NoCalls == [az |-> "none", spot |-> <<>>, instances |-> "none"]

---------------------------------------------------------------------------
(* AIStarterKitCostOptimizer.analyze_spot_price_trends                      *)

\* instance_types, in the order the loop visits them
instance_types ==
    <<"g4dn.xlarge", "g4dn.2xlarge", "g4dn.4xlarge", "g4ad.xlarge", "g5.xlarge">>

\* the leading entries of instance_types that the model analyses
AnalysedTypes == SubSeq(instance_types, 1, Min2(MaxTypes, Len(instance_types)))

RECURSIVE SeqMin(_)
SeqMin(s) == IF Len(s) = 1 THEN s[1] ELSE Min2(s[1], SeqMin(Tail(s)))

RECURSIVE SeqMax(_)
SeqMax(s) == IF Len(s) = 1 THEN s[1] ELSE Max2(s[1], SeqMax(Tail(s)))

\* prices_by_az: each zone's prices in the order the provider returned them
RECURSIVE prices_by_az_of(_, _)
prices_by_az_of(hist, prices_by_az) ==
    IF hist = <<>> THEN prices_by_az
    ELSE LET price_info == Head(hist)
             az == price_info.AvailabilityZone
             next ==
                 IF ~HasKey(prices_by_az, az)
                 THEN Append(prices_by_az,
                             [key |-> az, prices |-> <<price_info.SpotPrice>>])
                 ELSE [prices_by_az EXCEPT ![IndexOf(prices_by_az, az)].prices =
                          Append(@, price_info.SpotPrice)]
         IN  prices_by_az_of(Tail(hist), next)

\* az_stats of one zone; avg_price is rounded down to the cent
az_stats_entry(entry) ==
    [key |-> entry.key,
     current_price |-> entry.prices[1],
     avg_price |-> SeqSum(entry.prices) \div Len(entry.prices),
     min_price |-> SeqMin(entry.prices),
     max_price |-> SeqMax(entry.prices)]

az_stats_of(hist) ==
    LET prices_by_az == prices_by_az_of(hist, <<>>)
    IN  [i \in 1..Len(prices_by_az) |-> az_stats_entry(prices_by_az[i])]

\* min(az_stats.items(), key=lambda x: x[1]['current_price'])[0], or None
best_az(az_stats) ==
    IF az_stats = <<>> THEN "none"
    ELSE az_stats[CHOOSE i \in 1..Len(az_stats) :
             /\ \A j \in 1..Len(az_stats) :
                   az_stats[i].current_price <= az_stats[j].current_price
             /\ \A j \in 1..(i - 1) :
                   az_stats[j].current_price > az_stats[i].current_price].key

\* min(az['current_price'] for az in az_stats.values())
min_current_price(az_stats) ==
    SeqMin([i \in 1..Len(az_stats) |-> az_stats[i].current_price])

\* price_analysis[instance_type] when the lookup returned
price_analysis_entry(instance_type, hist, on_demand_price) ==
    LET az_stats == az_stats_of(hist)
    IN  [key |-> instance_type, kind |-> "analysis",
         availability_zones |-> az_stats,
         on_demand_price |-> on_demand_price,
         best_az |-> best_az(az_stats)]

\* price_analysis[instance_type] = {'error': str(e)}
price_analysis_error(instance_type) ==
    [key |-> instance_type, kind |-> "error", availability_zones |-> <<>>,
     on_demand_price |-> 0, best_az |-> "none"]

\* data['max_savings_percent'] > pct, where max_savings_percent is
\* 100 * (1 - min current price / on_demand_price), or 0 without data
MaxSavingsPercentAbove(data, pct) ==
    IF data.availability_zones # <<>> /\ data.on_demand_price > 0
    THEN 100 * (data.on_demand_price - min_current_price(data.availability_zones))
             > pct * data.on_demand_price
    ELSE 0 > pct

analyze_types_abort(types, responses, on_demand) ==
    LET failed == {i \in 1..Len(types) : ~responses[i].ok}
        upto == IF failed = {} THEN Len(types)
                ELSE CHOOSE i \in failed : \A j \in failed : i <= j
    IN  [i \in 1..upto |->
            IF responses[i].ok
            THEN price_analysis_entry(types[i], responses[i].SpotPriceHistory,
                                      on_demand[i])
            ELSE price_analysis_error(types[i])]

\* the loop over instance_types: one entry per type, an error entry for a
\* type whose lookup raised
analyze_types(types, responses, on_demand) ==
    [i \in 1..Len(types) |->
        IF responses[i].ok
        THEN price_analysis_entry(types[i], responses[i].SpotPriceHistory,
                                  on_demand[i])
        ELSE price_analysis_error(types[i])]

\* what describe_spot_price_history answers for one instance type
Zones == {"us-east-1a"}
ZonePriceSamples ==
    [AvailabilityZone : Zones, SpotPrice : SpotPriceValues, Timestamp : Timestamps]
TypePriceResponses ==
    {[ok |-> FALSE, SpotPriceHistory |-> <<>>], [ok |-> TRUE, SpotPriceHistory |-> <<>>]}
    \cup {[ok |-> TRUE, SpotPriceHistory |-> <<p>>] : p \in ZonePriceSamples}

\* what _get_on_demand_price returns: 0.0 when the pricing call failed or
\* listed nothing, else the listed price in cents
OnDemandPrices == {0, get_on_demand_prices["g4dn.xlarge"]}

---------------------------------------------------------------------------
(* AIStarterKitCostOptimizer.get_cost_insights                              *)

\* current-month costs in dollars, at and around the two monthly thresholds
MonthCosts == {monthly_warning, monthly_critical, monthly_critical + 500}
Forecasts == {monthly_warning, monthly_critical + 1000}

cost_insights_error ==
    [kind |-> "error", current_month_cost |-> 0, cost_trend |-> "none",
     savings_opportunities |-> <<>>]

get_cost_insights(total_cost, forecasted_cost) ==
    [kind |-> "insights",
     current_month_cost |-> total_cost,
     cost_trend |-> IF forecasted_cost > total_cost THEN "increasing" ELSE "stable",
     savings_opportunities |->
         IF total_cost > monthly_warning THEN <<"cost_alert">> ELSE <<>>]

---------------------------------------------------------------------------
(* AIStarterKitCostOptimizer.generate_comprehensive_report                  *)

\* the spot_savings recommendation of one analysed type
spot_savings_recommendation(data) ==
    [type |-> "spot_savings", priority |-> "high", instance_type |-> data.key,
     best_az |-> data.best_az, count |-> 1,
     amount |-> (100 * (data.on_demand_price
                           - min_current_price(data.availability_zones)))
                    \div data.on_demand_price]

\* for instance_type, data in spot_analysis.items(): ... > 60
RECURSIVE spot_recommendations(_)
spot_recommendations(spot_analysis) ==
    IF spot_analysis = <<>> THEN <<>>
    ELSE (IF Head(spot_analysis).kind = "analysis"
             /\ MaxSavingsPercentAbove(Head(spot_analysis), spot_savings_mark)
          THEN <<spot_savings_recommendation(Head(spot_analysis))>>
          ELSE <<>>)
         \o spot_recommendations(Tail(spot_analysis))

\* if idle_resources: one recommendation carrying their number and total cost
idle_recommendations(idle) ==
    IF idle # <<>>
    THEN <<[type |-> "idle_resources", priority |-> "medium", instance_type |-> "-",
            best_az |-> "-", count |-> Len(idle),
            amount |-> SeqSum([i \in 1..Len(idle) |-> idle[i].estimated_cost])]>>
    ELSE <<>>

cost_recommendations_flat(insights) ==
    IF insights.kind = "insights" /\ insights.current_month_cost > monthly_warning
    THEN <<[type |-> "cost_alert", priority |-> "critical", instance_type |-> "-",
            best_az |-> "-", count |-> 1, amount |-> insights.current_month_cost]>>
    ELSE <<>>

\* the cost threshold recommendation: critical above monthly_critical, else
\* warning above monthly_warning
cost_recommendations(insights) ==
    IF insights.kind # "insights" THEN <<>>
    ELSE IF insights.current_month_cost > monthly_critical
    THEN <<[type |-> "cost_alert", priority |-> "critical", instance_type |-> "-",
            best_az |-> "-", count |-> 1, amount |-> insights.current_month_cost]>>
    ELSE IF insights.current_month_cost > monthly_warning
    THEN <<[type |-> "cost_alert", priority |-> "warning", instance_type |-> "-",
            best_az |-> "-", count |-> 1, amount |-> insights.current_month_cost]>>
    ELSE <<>>

comprehensive_recommendations_once(spot_analysis, idle, insights) ==
    IF runs # <<>> THEN <<>>
    ELSE spot_recommendations(spot_analysis) \o idle_recommendations(idle)
             \o cost_recommendations(insights)

\* report['recommendations']
comprehensive_recommendations(spot_analysis, idle, insights) ==
    spot_recommendations(spot_analysis) \o idle_recommendations(idle)
        \o cost_recommendations(insights)

IsCritical(r) == r.priority = "critical"

critical_recommendations_all(recs) == recs

\* [r for r in recommendations if r['priority'] == 'critical']
critical_recommendations(recs) == SelectSeq(recs, IsCritical)

\* send_cost_alert publishes only when a topic is configured
publishes(topic) == IF topic = "none" THEN 0 ELSE 1

\* the variables of the automation script
automationVars ==
    <<current_utilization, signal, caps, instances_left, idle_instances, calls,
      report, reportVars>>

\* lambda_handler's except branch
lambda_error == [statusCode |-> 500, kind |-> "error", optimizations |-> <<>>]

\* lambda_handler with the default action: generate_comprehensive_report calls
\* analyze_spot_price_trends, whose zone lookup is outside its try
lambda_handler_report_spot ==
    /\ pc = "idle"
    /\ \E az_ok \in BOOLEAN :
          IF az_ok
          THEN \E responses \in [1..Len(AnalysedTypes) -> TypePriceResponses],
                  on_demand \in [1..Len(AnalysedTypes) -> OnDemandPrices] :
                  /\ spot_price_analysis' =
                         analyze_types(AnalysedTypes, responses, on_demand)
                  /\ external_calls' =
                         [external_calls EXCEPT
                             !.az = "ok",
                             !.spot = [i \in 1..Len(AnalysedTypes) |->
                                          IF responses[i].ok THEN "ok" ELSE "raise"]]
                  /\ result' = result
                  /\ pc' = "rpt_idle"
          ELSE /\ spot_price_analysis' = spot_price_analysis
               /\ external_calls' = [external_calls EXCEPT !.az = "raise"]
               /\ result' = lambda_error
               /\ pc' = "done"
    /\ UNCHANGED <<envVars, asg, automationVars, idle_resources, idleVars, cycleVars,
                   sns_topic_arn, cost_insights, scaling_optimizations,
                   recommendations, alert_data, published, pureVars, otherVars>>

\* 'idle_resources': self.check_idle_resources(); describe_instances is not
\* inside a try
lambda_handler_report_idle ==
    /\ pc = "rpt_idle"
    /\ \E ok \in BOOLEAN :
          IF ok
          THEN \E instances \in SeqsUpTo(InstanceMetrics, MaxInstances) :
                  /\ idle_resources' = check_idle_resources(instances)
                  /\ external_calls' = [external_calls EXCEPT !.instances = "ok"]
                  /\ result' = result
                  /\ pc' = "rpt_cost"
          ELSE /\ idle_resources' = idle_resources
               /\ external_calls' = [external_calls EXCEPT !.instances = "raise"]
               /\ result' = lambda_error
               /\ pc' = "done"
    /\ UNCHANGED <<envVars, asg, automationVars, idleVars, cycleVars, sns_topic_arn,
                   spot_price_analysis, cost_insights, scaling_optimizations,
                   recommendations, alert_data, published, pureVars, otherVars>>

\* 'cost_insights': self.get_cost_insights(), which catches its exceptions
lambda_handler_report_cost ==
    /\ pc = "rpt_cost"
    /\ \/ cost_insights' = cost_insights_error
       \/ \E total_cost \in MonthCosts, forecasted_cost \in Forecasts :
             cost_insights' = get_cost_insights(total_cost, forecasted_cost)
    /\ pc' = "rpt_scaling"
    /\ UNCHANGED <<envVars, asg, automationVars, lambdaVars, idleVars, cycleVars,
                   sns_topic_arn, spot_price_analysis, scaling_optimizations,
                   recommendations, alert_data, published, external_calls, pureVars, otherVars>>

\* 'scaling_optimizations': self.optimize_auto_scaling(), which catches its
\* exceptions
lambda_handler_report_scaling ==
    /\ pc = "rpt_scaling"
    /\ \E outcome \in {"raise", "no_group", "group"}, tagged \in BOOLEAN,
          act \in ActivityResponses :
          LET failed == outcome = "raise" \/ (outcome = "group" /\ tagged /\ ~act.ok)
          IN  scaling_optimizations' =
                  [kind |-> IF failed THEN "error" ELSE "optimizations",
                   optimizations |->
                       IF outcome = "group" /\ ~failed
                       THEN optimize_auto_scaling(asg, tagged, act.Activities)
                       ELSE <<>>]
    /\ pc' = "rpt_recommend"
    /\ UNCHANGED <<envVars, asg, automationVars, lambdaVars, idleVars, cycleVars,
                   sns_topic_arn, spot_price_analysis, cost_insights,
                   recommendations, alert_data, published, external_calls, pureVars, otherVars>>

\* the recommendations, the alert for the critical ones, and the return of the
\* report with status 200
lambda_handler_report_recommend ==
    /\ pc = "rpt_recommend"
    /\ LET recs == comprehensive_recommendations(spot_price_analysis, idle_resources,
                                                 cost_insights)
           critical == critical_recommendations(recs)
       IN  /\ recommendations' = recs
           /\ alert_data' =
                 IF critical # <<>>
                 THEN Append(alert_data,
                             [type |-> "critical_cost_alert",
                              recommendations |-> critical,
                              total_monthly_cost |-> cost_insights.current_month_cost])
                 ELSE alert_data
           /\ published' =
                 IF critical # <<>> THEN published + publishes(sns_topic_arn)
                 ELSE published
    /\ result' = [statusCode |-> 200, kind |-> "report", optimizations |-> <<>>]
    /\ pc' = "done"
    /\ UNCHANGED <<envVars, asg, automationVars, idle_resources, idleVars, cycleVars,
                   sns_topic_arn, spot_price_analysis, cost_insights,
                   scaling_optimizations, external_calls, pureVars, otherVars>>

\* the invocation is over: the optimizer and its report are gone
lambda_handler_report_return ==
    /\ pc = "done"
    /\ pc' = "idle"
    /\ result' = NoResult
    /\ idle_resources' = <<>>
    /\ spot_price_analysis' = <<>>
    /\ cost_insights' = NoInsights
    /\ scaling_optimizations' = NoScaling
    /\ recommendations' = <<>>
    /\ alert_data' = <<>>
    /\ published' = 0
    /\ external_calls' = NoCalls
    /\ UNCHANGED <<envVars, asg, automationVars, idleVars, cycleVars, sns_topic_arn,
                   pureVars, otherVars>>

---------------------------------------------------------------------------
(* lambda_handler with one of the single-stage actions                     *)

\* action 'spot_analysis': analyze_spot_price_trends is the whole result; the
\* zone lookup raises into lambda_handler's except, a per-type lookup does not
lambda_handler_spot_analysis ==
    /\ pc = "idle"
    /\ \E az_ok \in BOOLEAN :
          IF az_ok
          THEN \E responses \in [1..Len(AnalysedTypes) -> TypePriceResponses],
                  on_demand \in [1..Len(AnalysedTypes) -> OnDemandPrices] :
                  /\ spot_price_analysis' =
                         analyze_types(AnalysedTypes, responses, on_demand)
                  /\ external_calls' =
                         [external_calls EXCEPT
                             !.az = "ok",
                             !.spot = [i \in 1..Len(AnalysedTypes) |->
                                          IF responses[i].ok THEN "ok" ELSE "raise"]]
                  /\ result' = [statusCode |-> 200, kind |-> "price_analysis",
                                optimizations |-> <<>>]
          ELSE /\ spot_price_analysis' = spot_price_analysis
               /\ external_calls' = [external_calls EXCEPT !.az = "raise"]
               /\ result' = lambda_error
    /\ pc' = "done"
    /\ UNCHANGED <<envVars, asg, automationVars, idle_resources, idleVars, cycleVars,
                   sns_topic_arn, cost_insights, scaling_optimizations,
                   recommendations, alert_data, published, pureVars, otherVars>>

\* action 'cost_insights': get_cost_insights catches the exception of
\* get_cost_and_usage and returns {'error': ...}, which is sent with status 200
lambda_handler_cost_insights ==
    /\ pc = "idle"
    /\ \/ /\ cost_insights' = cost_insights_error
          /\ result' = [statusCode |-> 200, kind |-> "error", optimizations |-> <<>>]
       \/ \E total_cost \in MonthCosts, forecasted_cost \in Forecasts :
             /\ cost_insights' = get_cost_insights(total_cost, forecasted_cost)
             /\ result' = [statusCode |-> 200, kind |-> "insights",
                           optimizations |-> <<>>]
    /\ pc' = "done"
    /\ UNCHANGED <<envVars, asg, automationVars, idle_resources, idleVars, cycleVars,
                   sns_topic_arn, spot_price_analysis, scaling_optimizations,
                   recommendations, alert_data, published, external_calls, pureVars, otherVars>>

---------------------------------------------------------------------------
(* CostOptimizationManager.optimize_spot_instance_pricing and               *)
(* run_optimization_cycle                                                   *)

\* the loop that picks best_option: a type whose savings_percent beats the
\* best so far and whose spot price is within max_spot_price
RECURSIVE best_option_of(_, _)
best_option_of(savings, best) ==
    IF savings = <<>> THEN best.option
    ELSE LET analysis == Head(savings)
             better ==
                 /\ analysis.hourly_savings * best.on_demand_price
                        > best.hourly_savings * analysis.on_demand_price
                 /\ analysis.spot_price <= max_spot_price
         IN  best_option_of(Tail(savings),
                            IF better
                            THEN [option |-> analysis.key,
                                  hourly_savings |-> analysis.hourly_savings,
                                  on_demand_price |-> analysis.on_demand_price]
                            ELSE best)

\* best_option = None, best_savings = 0
best_option(savings) ==
    best_option_of(savings, [option |-> "none", hourly_savings |-> 0,
                             on_demand_price |-> 1])

\* spot_prices[best_option] is read from the first lookup while best_option
\* comes from the lookup inside calculate_potential_savings
pricing_raises_key_error(prices, savings) ==
    best_option(savings) # "none" /\ ~HasKey(prices, best_option(savings))

\* json.dump(report, f, indent=2): the timestamp of a spot price entry is a
\* datetime, which json cannot encode
json_serializable(r) == r.spot_prices = <<>>

\* step 1, optimize_spot_instance_pricing; its KeyError ends the cycle in the
\* except branch
run_optimization_cycle_pricing ==
    /\ pc = "idle"
    /\ cycle = "none"
    /\ \E first \in SpotPriceResponses, second \in SpotPriceResponses :
          IF pricing_raises_key_error(get_current_spot_prices(first),
                                      calculate_potential_savings(second))
          THEN cycle' = "key_error" /\ pc' = "done"
          ELSE cycle' = "scaling" /\ pc' = "idle"
    /\ UNCHANGED <<envVars, asg, automationVars, lambdaVars, idleVars,
                   comprehensiveVars, pureVars, otherVars>>

\* step 2, self.implement_auto_scaling()
run_optimization_cycle_scaling ==
    /\ cycle = "scaling"
    /\ implement_auto_scaling_start

\* steps 3 to 5: optimize_storage_costs and cleanup_unused_resources only log,
\* monitor_daily_costs looks the prices up and alerts
run_optimization_cycle_monitor ==
    /\ pc = "done"
    /\ cycle = "scaling"
    /\ \E resp \in SpotPriceResponses :
          alerts' = IF daily_cost_of(get_current_spot_prices(resp)) > cost_alert_threshold
                    THEN alerts + 1 ELSE alerts
    /\ current_utilization' = 0
    /\ signal' = "none"
    /\ caps' = NoGroup
    /\ instances_left' = 0
    /\ idle_instances' = <<>>
    /\ cycle' = "report"
    /\ pc' = "idle"
    /\ UNCHANGED <<envVars, asg, calls, report, spot_prices, savings_analysis,
                   estimated_daily_cost, lambdaVars, idleVars, comprehensiveVars,
                   pureVars, otherVars>>

\* step 6, report = self.generate_cost_report()
run_optimization_cycle_report ==
    /\ cycle = "report"
    /\ generate_cost_report_start

\* the report is written to its file, or the except branch logs the error
run_optimization_cycle_save ==
    /\ pc = "done"
    /\ cycle = "report"
    /\ \E file_opened \in BOOLEAN :
          cycle' = IF file_opened /\ json_serializable(report)
                   THEN "completed" ELSE "save_error"
    /\ UNCHANGED <<envVars, asg, pc, automationVars, lambdaVars, idleVars,
                   comprehensiveVars, pureVars, otherVars>>

\* run_optimization_cycle has returned
run_optimization_cycle_return ==
    /\ pc = "done"
    /\ cycle \in {"completed", "key_error", "save_error"}
    /\ pc' = "idle"
    /\ cycle' = "none"
    /\ current_utilization' = 0
    /\ signal' = "none"
    /\ caps' = NoGroup
    /\ instances_left' = 0
    /\ idle_instances' = <<>>
    /\ calls' = <<>>
    /\ spot_prices' = <<>>
    /\ savings_analysis' = <<>>
    /\ estimated_daily_cost' = 0
    /\ alerts' = 0
    /\ report' = NoReport
    /\ UNCHANGED <<envVars, asg, lambdaVars, idleVars, comprehensiveVars, pureVars, otherVars>>

---------------------------------------------------------------------------
(* setup_scheduled_optimization: schedule.run_pending() calls the job that   *)
(* is due; an exception of the job leaves run_pending and the while loop     *)

NoSchedule == [state |-> "none", last_job |-> "none"]

Scheduled(job) == [state |-> "running", last_job |-> job]

\* the job optimizer.implement_auto_scaling is due
schedule_implement_auto_scaling ==
    /\ schedule_loop.state = "running"
    /\ schedule_loop' = Scheduled("implement_auto_scaling")
    /\ pc = "idle"
    /\ \E resp \in MetricResponses :
          /\ current_utilization' = get_gpu_utilization(resp)
          /\ signal' = signal_of(resp)
    /\ pc' = IF asg_name = "none" THEN "done" ELSE "ias_describe"
    /\ UNCHANGED <<envVars, asg, caps, instances_left, idle_instances, calls, report,
                   reportVars, lambdaVars, idleVars, cycleVars, comprehensiveVars,
                   pureVars, concurrentVars, validatorVars, crawlVars,
                   mainVars>>

\* the job optimizer.optimize_spot_instance_pricing is due: the KeyError of
\* spot_prices[best_option] is not caught by the job, by run_pending or by
\* the loop
schedule_optimize_spot_instance_pricing ==
    /\ schedule_loop.state = "running"
    /\ pc = "idle"
    /\ \E first \in SpotPriceResponses, second \in SpotPriceResponses :
          schedule_loop' =
              IF pricing_raises_key_error(get_current_spot_prices(first),
                                          calculate_potential_savings(second))
              THEN [state |-> "stopped", last_job |-> "optimize_spot_instance_pricing"]
              ELSE Scheduled("optimize_spot_instance_pricing")
    /\ UNCHANGED <<envVars, asg, pc, automationVars, lambdaVars, idleVars, cycleVars,
                   comprehensiveVars, pureVars, concurrentVars, validatorVars, crawlVars,
                   mainVars>>

\* the job optimizer.cleanup_unused_resources is due: it only logs, inside a try
schedule_cleanup_unused_resources ==
    /\ schedule_loop.state = "running"
    /\ pc = "idle"
    /\ schedule_loop' = Scheduled("cleanup_unused_resources")
    /\ UNCHANGED <<envVars, asg, pc, automationVars, lambdaVars, idleVars, cycleVars,
                   comprehensiveVars, pureVars, concurrentVars, validatorVars, crawlVars,
                   mainVars>>

\* the job optimizer.generate_cost_report is due
schedule_generate_cost_report ==
    /\ schedule_loop.state = "running"
    /\ schedule_loop' = Scheduled("generate_cost_report")
    /\ pc = "idle"
    /\ \E resp \in SpotPriceResponses :
          spot_prices' = get_current_spot_prices(resp)
    /\ pc' = "gcr_savings"
    /\ UNCHANGED <<envVars, asg, current_utilization, signal, caps, instances_left,
                   idle_instances, calls, report, savings_analysis,
                   estimated_daily_cost, alerts, lambdaVars, idleVars, cycleVars,
                   comprehensiveVars, pureVars, concurrentVars, validatorVars, crawlVars,
                   mainVars>>

---------------------------------------------------------------------------
(* The current price both scripts derive from one SpotPriceHistory           *)

PriceZones == {"us-east-1a", "us-east-1b"}

\* the samples of one instance type, in any order and with any timestamps
HistorySamples ==
    [InstanceType : {"g4dn.xlarge"}, AvailabilityZone : PriceZones,
     SpotPrice : SpotPriceValues, Timestamp : 1..MaxTimestamp]

\* get_current_spot_prices and the az_stats of analyze_spot_price_trends,
\* applied to the same history
derive_current_prices ==
    /\ pc = "idle"
    /\ current_price' =
           [automation |-> get_current_spot_prices(
                               [ok |-> TRUE, SpotPriceHistory |-> spot_price_history]),
            lambda |-> az_stats_of(spot_price_history)]
    /\ pc' = "done"
    /\ UNCHANGED <<envVars, asg, automationVars, lambdaVars, idleVars, cycleVars,
                   comprehensiveVars, spot_price_history, observed, runs,
                   otherVars>>

---------------------------------------------------------------------------
(* Two runs of a report generator on the same observer outputs              *)

\* what the observers hand to generate_comprehensive_report
LambdaObservations ==
    [script : {"lambda"},
     spot_price_analysis :
         {analyze_types(AnalysedTypes, responses, on_demand) :
             responses \in [1..Len(AnalysedTypes) -> TypePriceResponses],
             on_demand \in [1..Len(AnalysedTypes) -> OnDemandPrices]},
     idle_resources :
         {check_idle_resources(instances) :
             instances \in SeqsUpTo(InstanceMetrics, MaxInstances)},
     cost_insights :
         {cost_insights_error} \cup
         {get_cost_insights(total_cost, forecasted_cost) :
             total_cost \in MonthCosts, forecasted_cost \in Forecasts},
     current_utilization : {0},
     estimated_daily_cost : {0},
     savings_analysis : {<<>>}]

\* what the observers hand to generate_cost_report
AutomationObservations ==
    [script : {"automation"},
     spot_price_analysis : {<<>>},
     idle_resources : {<<>>},
     cost_insights : {NoInsights},
     current_utilization : UtilValues,
     estimated_daily_cost :
         {daily_cost_of(get_current_spot_prices(resp)) : resp \in SpotPriceResponses},
     savings_analysis :
         {calculate_potential_savings(resp) : resp \in SpotPriceResponses}]

\* one more run of the generator on the observed outputs: its recommendations
assemble_report ==
    /\ pc = "idle"
    /\ Len(runs) < 2
    /\ runs' = Append(runs,
                      IF observed.script = "lambda"
                      THEN comprehensive_recommendations(observed.spot_price_analysis,
                                                         observed.idle_resources,
                                                         observed.cost_insights)
                      ELSE recommendations_of(observed.current_utilization, "observed",
                                              observed.estimated_daily_cost,
                                              observed.savings_analysis))
    /\ UNCHANGED <<envVars, asg, pc, automationVars, lambdaVars, idleVars, cycleVars,
                   comprehensiveVars, spot_price_history, current_price, observed,
                   otherVars>>

---------------------------------------------------------------------------
(* docs validation: TemplateValidator (template_validator.py)               *)
(*                                                                         *)
(* A YAML value is a record of its Python type and its text; a mapping is   *)
(* a sequence of key/value entries, the empty mapping and None both <<>>.  *)

VALID_CONTEXT_WINDOWS == {"8k_tokens", "16k_tokens", "32k_tokens"}
VALID_MEMORY_FORMATS == {"sequential", "tabular", "hierarchical"}
VALID_REASONING_DEPTHS == {"required", "optional", "none"}
VALID_ATTENTION_FOCUSES == {"technical", "process", "analysis"}
VALID_CATEGORIES == {"technical", "guide", "analysis", "tracking"}
VALID_STATUSES == {"draft", "review", "active", "archived"}

\* what yaml.safe_load makes of a scalar or a sequence
YamlNull == [type |-> "null", value |-> ""]
YamlStr(s) == [type |-> "str", value |-> s]
YamlInt(s) == [type |-> "int", value |-> s]
YamlFloat(s) == [type |-> "float", value |-> s]
YamlSeq(s) == [type |-> "seq", value |-> s]
YamlTimestamp(s) == [type |-> "datetime", value |-> s]

\* bool(v)
truthy(v) ==
    /\ v.type # "null"
    /\ ~(v.type = "str" /\ v.value = "")
    /\ ~(v.type = "int" /\ v.value = "0")
    /\ ~(v.type = "seq" /\ v.value = "")

\* d.get(k) of a mapping of scalars, d.get(k, {}) of a mapping of mappings
Get(d, k) == IF HasKey(d, k) THEN Lookup(d, k).value ELSE YamlNull
GetBlock(d, k) == IF HasKey(d, k) THEN Lookup(d, k).value ELSE <<>>

\* a call that returned value, and one that raised
Returned(errors) == [raised |-> FALSE, errors |-> errors]
Raised == [raised |-> TRUE, errors |-> <<>>]

\* `v in {...}` hashes v: a list raises TypeError
membership_raises(v) == v.type = "seq"
member(v, valid) == v.type = "str" /\ v.value \in valid

\* if not v or v not in valid: errors.append(message)
choice_errors(v, valid, message) ==
    IF ~truthy(v) \/ ~member(v, valid) THEN <<message>> ELSE <<>>
choice_raises(v) == truthy(v) /\ membership_raises(v)

\* files of the workspace that references may name
ExistingFiles == {"docs/README.md"}

\* _validate_file_reference: Path / str only; 'null' passes unchecked
file_reference_raises(v) == v.type # "str"
validate_file_reference(v) == v.value = "null" \/ v.value \in ExistingFiles

\* if previous and not self._validate_file_reference(previous)
link_errors(v, message) ==
    IF truthy(v) /\ ~validate_file_reference(v) THEN <<message>> ELSE <<>>
link_raises(v) == truthy(v) /\ file_reference_raises(v)

model_requirements_errors(model_reqs) ==
    IF model_reqs = <<>> THEN <<"Missing model_requirements">>
    ELSE choice_errors(Get(model_reqs, "context_window"), VALID_CONTEXT_WINDOWS,
                       "Invalid context_window")
         \o choice_errors(Get(model_reqs, "memory_format"), VALID_MEMORY_FORMATS,
                          "Invalid memory_format")
         \o choice_errors(Get(model_reqs, "reasoning_depth"), VALID_REASONING_DEPTHS,
                          "Invalid reasoning_depth")
         \o choice_errors(Get(model_reqs, "attention_focus"), VALID_ATTENTION_FOCUSES,
                          "Invalid attention_focus")

model_requirements_raises(model_reqs) ==
    /\ model_reqs # <<>>
    /\ \E k \in {"context_window", "memory_format", "reasoning_depth",
                "attention_focus"} : choice_raises(Get(model_reqs, k))

context_chain_errors(context_chain) ==
    IF context_chain = <<>> THEN <<"Missing context_chain">>
    ELSE link_errors(Get(context_chain, "previous"), "Invalid previous link")
         \o link_errors(Get(context_chain, "next"), "Invalid next link")

context_chain_raises(context_chain) ==
    /\ context_chain # <<>>
    /\ \/ link_raises(Get(context_chain, "previous"))
       \/ link_raises(Get(context_chain, "next"))

\* _validate_ai_context: the errors it returns, unless one of its checks raised
validate_ai_context(front_matter) ==
    LET ai_context == GetBlock(front_matter, "ai_context")
        model_reqs == GetBlock(ai_context, "model_requirements")
        context_chain == GetBlock(ai_context, "context_chain")
    IN  IF ai_context = <<>> THEN Returned(<<"Missing ai_context">>)
        ELSE IF model_requirements_raises(model_reqs)
                \/ context_chain_raises(context_chain)
        THEN Raised
        ELSE Returned(model_requirements_errors(model_reqs)
                      \o context_chain_errors(context_chain))

\* strings that datetime.strptime(_, '%Y-%m-%d %I:%M:%S %p CST') accepts
TimestampStrings == {"2025-02-23 07:58:00 AM CST", "2025-02-23 08:02:00 AM CST"}

\* _validate_timestamp: ValueError is caught, the TypeError of a non-string
\* argument is not
timestamp_raises(v) == v.type # "str"
validate_timestamp(v) == v.value \in TimestampStrings

timestamp_errors(v, message) ==
    IF ~truthy(v) \/ ~validate_timestamp(v) THEN <<message>> ELSE <<>>

\* strings that re.match(r'^v\d+\.\d+\.\d+$', _) matches
VersionStrings == {"v1.0.0", "v2.10.3"}

\* re.match raises TypeError on a version that YAML read as a number
version_raises(v) == truthy(v) /\ v.type # "str"
version_errors(v) ==
    IF ~truthy(v) \/ v.value \notin VersionStrings
    THEN <<"Invalid version format">> ELSE <<>>

\* len(abstract) of the abstracts used here
AbstractLength(s) ==
    CASE s = "Test technical document" -> 23
      [] s = "long abstract" -> max_abstract_length + 1
      [] OTHER -> 0

\* len() of a number raises TypeError
abstract_raises(v) == truthy(v) /\ v.type \notin {"str", "seq"}
abstract_errors(v) ==
    IF ~truthy(v) \/ AbstractLength(v.value) > max_abstract_length
    THEN <<"Invalid abstract">> ELSE <<>>

\* if not metadata.get(field): errors.append(message)
required_errors(v, message) == IF ~truthy(v) THEN <<message>> ELSE <<>>

\* the revision_id and parent_doc check of _validate_metadata
parent_doc_errors(v) == required_errors(v, "Missing parent_doc")

metadata_raises(metadata) ==
    \/ \E field \in {"created", "updated"} :
          truthy(Get(metadata, field)) /\ timestamp_raises(Get(metadata, field))
    \/ version_raises(Get(metadata, "version"))
    \/ choice_raises(Get(metadata, "category"))
    \/ choice_raises(Get(metadata, "status"))
    \/ abstract_raises(Get(metadata, "abstract"))

\* _validate_metadata
validate_metadata(front_matter) ==
    LET metadata == GetBlock(GetBlock(front_matter, "ai_context"), "metadata")
    IN  IF metadata = <<>> THEN Returned(<<"Missing metadata">>)
        ELSE IF metadata_raises(metadata) THEN Raised
        ELSE Returned(
                 timestamp_errors(Get(metadata, "created"), "Invalid created timestamp")
                 \o timestamp_errors(Get(metadata, "updated"),
                                     "Invalid updated timestamp")
                 \o version_errors(Get(metadata, "version"))
                 \o choice_errors(Get(metadata, "category"), VALID_CATEGORIES,
                                  "Invalid category")
                 \o choice_errors(Get(metadata, "status"), VALID_STATUSES,
                                  "Invalid status")
                 \o required_errors(Get(metadata, "revision_id"), "Missing revision_id")
                 \o parent_doc_errors(Get(metadata, "parent_doc"))
                 \o abstract_errors(Get(metadata, "abstract")))

\* required_sections[category], in the order the sections are looked for
required_sections(category) ==
    CASE category = "technical" ->
             <<"System Overview", "Implementation Details", "Security Considerations">>
      [] category = "guide" ->
             <<"Prerequisites", "Step-by-Step Guide", "Troubleshooting">>
      [] category = "analysis" ->
             <<"Executive Summary", "Analysis", "Recommendations">>
      [] category = "tracking" ->
             <<"Current Status", "Progress Summary", "Metrics">>
      [] OTHER -> <<>>

RECURSIVE missing_sections(_, _)
missing_sections(sections, body) ==
    IF sections = <<>> THEN <<>>
    ELSE (IF Head(sections) \in body THEN <<>> ELSE <<"Missing required section">>)
         \o missing_sections(Tail(sections), body)

\* _validate_document_structure: `category in required_sections` hashes category
validate_document_structure(front_matter, body) ==
    LET category ==
            Get(GetBlock(GetBlock(front_matter, "ai_context"), "metadata"), "category")
    IN  IF membership_raises(category) THEN Raised
        ELSE Returned(IF category.type = "str"
                      THEN missing_sections(required_sections(category.value), body)
                      ELSE <<>>)

\* validate_file: the three validators share one try, whose except appends one
\* error to what was collected before the exception
validate_file(doc) ==
    IF ~doc.exists THEN <<"File not found">>
    ELSE IF doc.front_matter = <<>> THEN <<"No valid front matter found">>
    ELSE LET ai == validate_ai_context(doc.front_matter)
             meta == validate_metadata(doc.front_matter)
             structure == validate_document_structure(doc.front_matter, doc.body)
         IN  IF ai.raised THEN <<"Error processing">>
             ELSE IF meta.raised THEN ai.errors \o <<"Error processing">>
             ELSE IF structure.raised
             THEN ai.errors \o meta.errors \o <<"Error processing">>
             ELSE ai.errors \o meta.errors \o structure.errors

\* the documents validate_file is applied to
Entry(k, v) == [key |-> k, value |-> v]

ContextWindows ==
    {YamlNull, YamlStr("16k_tokens"), YamlStr("invalid_size"), YamlSeq("[16k_tokens]")}
MemoryFormats ==
    {YamlStr("hierarchical"), YamlStr("flat"), YamlSeq("[sequential, tabular]")}
ReasoningDepths == {YamlStr("required"), YamlNull}

ModelRequirementBlocks ==
    {<<>>} \cup
    {<<Entry("context_window", cw), Entry("memory_format", mf),
       Entry("reasoning_depth", rd), Entry("attention_focus", YamlStr("technical"))>> :
        cw \in ContextWindows, mf \in MemoryFormats, rd \in ReasoningDepths}

PreviousLinks ==
    {YamlNull, YamlStr("null"), YamlStr("docs/missing.md"), YamlInt("5")}

ContextChainBlocks ==
    {<<>>} \cup
    {<<Entry("previous", previous), Entry("next", YamlNull)>> :
        previous \in PreviousLinks}

CreatedValues ==
    {YamlStr("2025-02-23 07:58:00 AM CST"), YamlStr("2025-02-23"),
     YamlTimestamp("2025-02-23 07:58:00")}
VersionValues == {YamlStr("v1.0.0"), YamlFloat("1.0")}
CategoryValues == {YamlStr("technical"), YamlStr("guide"), YamlNull}
ParentDocValues == {YamlNull, YamlStr("docs/README.md")}
AbstractValues == {YamlStr("Test technical document"), YamlStr("long abstract")}

MetadataBlocks ==
    {<<>>} \cup
    {<<Entry("created", created),
       Entry("updated", YamlStr("2025-02-23 07:58:00 AM CST")),
       Entry("version", version), Entry("category", category),
       Entry("status", YamlStr("active")), Entry("revision_id", YamlStr("test-123")),
       Entry("parent_doc", parent_doc), Entry("abstract", abstract)>> :
        created \in CreatedValues, version \in VersionValues,
        category \in CategoryValues, parent_doc \in ParentDocValues,
        abstract \in AbstractValues}

TechnicalSections ==
    {"System Overview", "Implementation Details", "Security Considerations"}

Bodies == {TechnicalSections, TechnicalSections \ {"Security Considerations"}, {}}

FrontMatter(model_reqs, context_chain, metadata) ==
    <<Entry("ai_context",
            <<Entry("model_requirements", model_reqs),
              Entry("context_chain", context_chain),
              Entry("metadata", metadata)>>)>>

NoDocument == [exists |-> FALSE, front_matter |-> <<>>, body |-> {}]

\* the document of test_valid_technical_doc
ValidTechnicalDocument ==
    [exists |-> TRUE,
     front_matter |->
         FrontMatter(
             <<Entry("context_window", YamlStr("16k_tokens")),
               Entry("memory_format", YamlStr("hierarchical")),
               Entry("reasoning_depth", YamlStr("required")),
               Entry("attention_focus", YamlStr("technical"))>>,
             <<Entry("previous", YamlNull), Entry("next", YamlNull)>>,
             <<Entry("created", YamlStr("2025-02-23 07:58:00 AM CST")),
               Entry("updated", YamlStr("2025-02-23 07:58:00 AM CST")),
               Entry("version", YamlStr("v1.0.0")),
               Entry("category", YamlStr("technical")),
               Entry("status", YamlStr("active")),
               Entry("revision_id", YamlStr("test-123")),
               Entry("parent_doc", YamlNull),
               Entry("abstract", YamlStr("Test technical document"))>>),
     body |-> TechnicalSections]

Documents ==
    {NoDocument, [exists |-> TRUE, front_matter |-> <<>>, body |-> {}],
     [exists |-> TRUE, front_matter |-> <<Entry("ai_context", <<>>)>>, body |-> {}]}
    \cup
    {[exists |-> TRUE, front_matter |-> FrontMatter(model_reqs, context_chain, metadata),
      body |-> body] :
        model_reqs \in ModelRequirementBlocks, context_chain \in ContextChainBlocks,
        metadata \in MetadataBlocks, body \in Bodies}

\* errors = self.validator.validate_file(str(file_path))
validate_document ==
    /\ pc = "idle"
    /\ validation_errors' = validate_file(document)
    /\ pc' = "done"
    /\ UNCHANGED <<envVars, asg, automationVars, lambdaVars, idleVars, cycleVars,
                   comprehensiveVars, pureVars, concurrentVars, document,
                   scheduleVars, crawlVars,
                   mainVars>>

---------------------------------------------------------------------------
(* docs validation: main() of 02-validate-all-docs.py                       *)

NoValidationRun ==
    [pc |-> "none", total_files |-> 0, checked |-> 0, failed_files |-> 0,
     error_count |-> 0, exit_code |-> 0]

\* the valid technical document with a parent document that exists
PassingDocument ==
    [ValidTechnicalDocument EXCEPT
        !.front_matter =
            FrontMatter(
                <<Entry("context_window", YamlStr("16k_tokens")),
                  Entry("memory_format", YamlStr("hierarchical")),
                  Entry("reasoning_depth", YamlStr("required")),
                  Entry("attention_focus", YamlStr("technical"))>>,
                <<Entry("previous", YamlNull), Entry("next", YamlNull)>>,
                <<Entry("created", YamlStr("2025-02-23 07:58:00 AM CST")),
                  Entry("updated", YamlStr("2025-02-23 07:58:00 AM CST")),
                  Entry("version", YamlStr("v1.0.0")),
                  Entry("category", YamlStr("technical")),
                  Entry("status", YamlStr("active")),
                  Entry("revision_id", YamlStr("test-123")),
                  Entry("parent_doc", YamlStr("docs/README.md")),
                  Entry("abstract", YamlStr("Test technical document"))>>)]

\* markdown files of a workspace: one that passes, one with one error, one
\* without front matter
MarkdownFiles ==
    {PassingDocument, ValidTechnicalDocument,
     [exists |-> TRUE, front_matter |-> <<>>, body |-> {}]}

\* markdown_files = find_markdown_files(workspace_root); total_files = len(...)
main_start ==
    /\ validation_run.pc = "start"
    /\ validation_run' =
           [validation_run EXCEPT !.pc = "loop", !.total_files = Len(markdown_files)]
    /\ UNCHANGED <<envVars, asg, pc, automationVars, lambdaVars, idleVars, cycleVars,
                   comprehensiveVars, pureVars, concurrentVars, validatorVars,
                   scheduleVars, crawlVars, markdown_files>>

\* one iteration of `for file_path in markdown_files`
main_validate_file ==
    /\ validation_run.pc = "loop"
    /\ validation_run.checked < Len(markdown_files)
    /\ LET errors == validate_file(markdown_files[validation_run.checked + 1])
       IN  validation_run' =
               [validation_run EXCEPT
                   !.checked = @ + 1,
                   !.failed_files = IF errors # <<>> THEN @ + 1 ELSE @,
                   !.error_count = @ + Len(errors)]
    /\ UNCHANGED <<envVars, asg, pc, automationVars, lambdaVars, idleVars, cycleVars,
                   comprehensiveVars, pureVars, concurrentVars, validatorVars,
                   scheduleVars, crawlVars, markdown_files>>

\* the summary divides by total_files, then return 1 if failed_files > 0 else 0
main_summary ==
    /\ validation_run.pc = "loop"
    /\ validation_run.checked = Len(markdown_files)
    /\ validation_run' =
           IF validation_run.total_files = 0
           THEN [validation_run EXCEPT !.pc = "raised"]
           ELSE [validation_run EXCEPT
                    !.pc = "returned",
                    !.exit_code = IF validation_run.failed_files > 0 THEN 1 ELSE 0]
    /\ UNCHANGED <<envVars, asg, pc, automationVars, lambdaVars, idleVars, cycleVars,
                   comprehensiveVars, pureVars, concurrentVars, validatorVars,
                   scheduleVars, crawlVars, markdown_files>>

---------------------------------------------------------------------------
(* crawl4ai/app/server.py: the handlers and the process_task coroutines run  *)
(* on one event loop, so a step is the code between two awaits.  Task id n  *)
(* stands for the string 'task_n'.                                          *)

TaskIds == 1..MaxTasks

processing_entry == [status |-> "processing", result |-> "none", error |-> "none"]
completed_entry == [status |-> "completed", result |-> "embeddings", error |-> "none"]
failed_entry == [status |-> "failed", result |-> "none", error |-> "str(e)"]
not_found == [status |-> "none", result |-> "none", error |-> "Task not found"]

NoResponse == [task_id |-> 0, status_code |-> 0, body |-> not_found]

\* tasks[k] = v
Put(d, k, v) == [x \in DOMAIN d \cup {k} |-> IF x = k THEN v ELSE d[x]]

next_task_id_reused(d) == Max2(1, Cardinality(DOMAIN d))

\* task_id = f"task_{len(tasks) + 1}"
next_task_id(d) == Cardinality(DOMAIN d) + 1

task_outcome_unfinished(raised) == processing_entry

\* what process_task stores: the result, or the error of an exception
task_outcome(raised) == IF raised THEN failed_entry ELSE completed_entry

\* POST /crawl: no await between the id, the entry, create_task and the return
start_crawl ==
    /\ Cardinality(DOMAIN tasks) < MaxTasks
    /\ LET task_id == next_task_id(tasks)
       IN  /\ tasks' = Put(tasks, task_id, processing_entry)
           /\ background' = background \cup {[task_id |-> task_id, pc |-> "created"]}
           /\ returned' = Append(returned, task_id)
    /\ UNCHANGED <<envVars, asg, pc, automationVars, lambdaVars, idleVars, cycleVars,
                   comprehensiveVars, pureVars, concurrentVars, validatorVars,
                   scheduleVars, get_response,
                   mainVars>>

\* the coroutine of task_id starts and reaches await asyncio.sleep(2)
process_task_sleep_of(task_id) ==
    /\ [task_id |-> task_id, pc |-> "created"] \in background
    /\ background' = (background \ {[task_id |-> task_id, pc |-> "created"]})
                         \cup {[task_id |-> task_id, pc |-> "sleeping"]}
    /\ UNCHANGED <<envVars, asg, pc, automationVars, lambdaVars, idleVars, cycleVars,
                   comprehensiveVars, pureVars, concurrentVars, validatorVars,
                   scheduleVars, tasks, returned, get_response,
                   mainVars>>

\* the sleep is over: the content is processed and the entry of the task_id the
\* coroutine closed over is replaced, in the try or in the except branch
process_task_finish_of(task_id) ==
    /\ [task_id |-> task_id, pc |-> "sleeping"] \in background
    /\ \E raised \in BOOLEAN : tasks' = Put(tasks, task_id, task_outcome(raised))
    /\ background' = background \ {[task_id |-> task_id, pc |-> "sleeping"]}
    /\ UNCHANGED <<envVars, asg, pc, automationVars, lambdaVars, idleVars, cycleVars,
                   comprehensiveVars, pureVars, concurrentVars, validatorVars,
                   scheduleVars, returned, get_response,
                   mainVars>>

process_task_sleep == \E task_id \in TaskIds : process_task_sleep_of(task_id)

process_task_finish == \E task_id \in TaskIds : process_task_finish_of(task_id)

\* GET /task/{task_id}
get_task_status ==
    /\ \E task_id \in TaskIds :
          get_response' =
              IF task_id \notin DOMAIN tasks
              THEN [task_id |-> task_id, status_code |-> 404, body |-> not_found]
              ELSE [task_id |-> task_id, status_code |-> 200, body |-> tasks[task_id]]
    /\ UNCHANGED <<envVars, asg, pc, automationVars, lambdaVars, idleVars, cycleVars,
                   comprehensiveVars, pureVars, concurrentVars, validatorVars,
                   scheduleVars, tasks, background, returned,
                   mainVars>>

---------------------------------------------------------------------------
(* Specifications *)

Init ==
    /\ asg_name \in {"none", "asg"}
    /\ asg \in (IF asg_name = "none" THEN {NoGroup} ELSE AsgConfigs)
    /\ pc = "idle"
    /\ current_utilization = 0
    /\ signal = "none"
    /\ caps = NoGroup
    /\ instances_left = 0
    /\ idle_instances = <<>>
    /\ calls = <<>>
    /\ spot_prices = <<>>
    /\ savings_analysis = <<>>
    /\ estimated_daily_cost = 0
    /\ alerts = 0
    /\ report = NoReport
    /\ result = NoResult
    /\ idle_resources = <<>>
    /\ metrics = NoMetrics
    /\ verdict = "none"
    /\ cycle = "none"
    /\ sns_topic_arn = "none"
    /\ spot_price_analysis = <<>>
    /\ cost_insights = NoInsights
    /\ scaling_optimizations = NoScaling
    /\ recommendations = <<>>
    /\ alert_data = <<>>
    /\ published = 0
    /\ external_calls = NoCalls
    /\ spot_price_history = <<>>
    /\ current_price = NoCurrent
    /\ observed = NoObserved
    /\ runs = <<>>
    /\ scaling_runs = <<>>
    /\ capacity_before = 0
    /\ document = NoDocument
    /\ validation_errors = <<>>
    /\ schedule_loop = NoSchedule
    /\ tasks = <<>>
    /\ background = {}
    /\ returned = <<>>
    /\ get_response = NoResponse
    /\ markdown_files = <<>>
    /\ validation_run = NoValidationRun

Next ==
    \/ implement_auto_scaling_start
    \/ implement_auto_scaling_describe
    \/ implement_auto_scaling_scale_up
    \/ implement_auto_scaling_check_idle
    \/ implement_auto_scaling_idle_loop
    \/ implement_auto_scaling_scale_down
    \/ generate_cost_report_start
    \/ generate_cost_report_savings
    \/ generate_cost_report_utilization
    \/ generate_cost_report_monitor
    \/ lambda_handler_scaling_optimization
    \/ lambda_handler_idle_check
    \/ handler_return

Spec == Init /\ [][Next]_vars

\* the idle classifier applied to every input of MetricInputs
InitIdle ==
    /\ asg_name = "none"
    /\ asg = NoGroup
    /\ pc = "idle"
    /\ current_utilization = 0
    /\ signal = "none"
    /\ caps = NoGroup
    /\ instances_left = 0
    /\ idle_instances = <<>>
    /\ calls = <<>>
    /\ spot_prices = <<>>
    /\ savings_analysis = <<>>
    /\ estimated_daily_cost = 0
    /\ alerts = 0
    /\ report = NoReport
    /\ result = NoResult
    /\ idle_resources = <<>>
    /\ metrics \in MetricInputs
    /\ verdict = "unset"
    /\ cycle = "none"
    /\ sns_topic_arn = "none"
    /\ spot_price_analysis = <<>>
    /\ cost_insights = NoInsights
    /\ scaling_optimizations = NoScaling
    /\ recommendations = <<>>
    /\ alert_data = <<>>
    /\ published = 0
    /\ external_calls = NoCalls
    /\ spot_price_history = <<>>
    /\ current_price = NoCurrent
    /\ observed = NoObserved
    /\ runs = <<>>
    /\ scaling_runs = <<>>
    /\ capacity_before = 0
    /\ document = NoDocument
    /\ validation_errors = <<>>
    /\ schedule_loop = NoSchedule
    /\ tasks = <<>>
    /\ background = {}
    /\ returned = <<>>
    /\ get_response = NoResponse
    /\ markdown_files = <<>>
    /\ validation_run = NoValidationRun

NextIdle == classify_instance

SpecIdle == InitIdle /\ [][NextIdle]_vars

\* invocations of lambda_handler with the default action, on a tagged group
ReportGroups ==
    {g \in AsgConfigs : g.MinSize = 1 /\ g.DesiredCapacity = 2 /\ g.MaxSize = 3}

InitReport ==
    /\ asg_name = "asg"
    /\ asg \in ReportGroups
    /\ pc = "idle"
    /\ current_utilization = 0
    /\ signal = "none"
    /\ caps = NoGroup
    /\ instances_left = 0
    /\ idle_instances = <<>>
    /\ calls = <<>>
    /\ spot_prices = <<>>
    /\ savings_analysis = <<>>
    /\ estimated_daily_cost = 0
    /\ alerts = 0
    /\ report = NoReport
    /\ result = NoResult
    /\ idle_resources = <<>>
    /\ metrics = NoMetrics
    /\ verdict = "none"
    /\ cycle = "none"
    /\ sns_topic_arn \in {"none", "arn"}
    /\ spot_price_analysis = <<>>
    /\ cost_insights = NoInsights
    /\ scaling_optimizations = NoScaling
    /\ recommendations = <<>>
    /\ alert_data = <<>>
    /\ published = 0
    /\ external_calls = NoCalls
    /\ spot_price_history = <<>>
    /\ current_price = NoCurrent
    /\ observed = NoObserved
    /\ runs = <<>>
    /\ scaling_runs = <<>>
    /\ capacity_before = 0
    /\ document = NoDocument
    /\ validation_errors = <<>>
    /\ schedule_loop = NoSchedule
    /\ tasks = <<>>
    /\ background = {}
    /\ returned = <<>>
    /\ get_response = NoResponse
    /\ markdown_files = <<>>
    /\ validation_run = NoValidationRun

NextReport ==
    \/ lambda_handler_report_spot
    \/ lambda_handler_report_idle
    \/ lambda_handler_report_cost
    \/ lambda_handler_report_scaling
    \/ lambda_handler_report_recommend
    \/ lambda_handler_report_return

SpecReport == InitReport /\ [][NextReport]_vars

\* invocations of lambda_handler with any action
NextHandler ==
    \/ lambda_handler_spot_analysis
    \/ lambda_handler_idle_check
    \/ lambda_handler_cost_insights
    \/ lambda_handler_scaling_optimization
    \/ lambda_handler_report_spot
    \/ lambda_handler_report_idle
    \/ lambda_handler_report_cost
    \/ lambda_handler_report_scaling
    \/ lambda_handler_report_recommend
    \/ lambda_handler_report_return

SpecHandler == InitReport /\ [][NextHandler]_vars

\* runs of run_optimization_cycle
CycleGroups == {g \in AsgConfigs : g.MinSize = 1 /\ g.MaxSize = 3}

InitCycle ==
    /\ asg_name \in {"none", "asg"}
    /\ asg \in (IF asg_name = "none" THEN {NoGroup} ELSE CycleGroups)
    /\ pc = "idle"
    /\ current_utilization = 0
    /\ signal = "none"
    /\ caps = NoGroup
    /\ instances_left = 0
    /\ idle_instances = <<>>
    /\ calls = <<>>
    /\ spot_prices = <<>>
    /\ savings_analysis = <<>>
    /\ estimated_daily_cost = 0
    /\ alerts = 0
    /\ report = NoReport
    /\ result = NoResult
    /\ idle_resources = <<>>
    /\ metrics = NoMetrics
    /\ verdict = "none"
    /\ cycle = "none"
    /\ sns_topic_arn = "none"
    /\ spot_price_analysis = <<>>
    /\ cost_insights = NoInsights
    /\ scaling_optimizations = NoScaling
    /\ recommendations = <<>>
    /\ alert_data = <<>>
    /\ published = 0
    /\ external_calls = NoCalls
    /\ spot_price_history = <<>>
    /\ current_price = NoCurrent
    /\ observed = NoObserved
    /\ runs = <<>>
    /\ scaling_runs = <<>>
    /\ capacity_before = 0
    /\ document = NoDocument
    /\ validation_errors = <<>>
    /\ schedule_loop = NoSchedule
    /\ tasks = <<>>
    /\ background = {}
    /\ returned = <<>>
    /\ get_response = NoResponse
    /\ markdown_files = <<>>
    /\ validation_run = NoValidationRun

NextCycle ==
    \/ run_optimization_cycle_pricing
    \/ run_optimization_cycle_scaling
    \/ implement_auto_scaling_describe
    \/ implement_auto_scaling_scale_up
    \/ implement_auto_scaling_check_idle
    \/ implement_auto_scaling_idle_loop
    \/ implement_auto_scaling_scale_down
    \/ run_optimization_cycle_monitor
    \/ run_optimization_cycle_report
    \/ generate_cost_report_savings
    \/ generate_cost_report_utilization
    \/ generate_cost_report_monitor
    \/ run_optimization_cycle_save
    \/ run_optimization_cycle_return

SpecCycle == InitCycle /\ [][NextCycle]_vars

\* the current-price derivations applied to every history of the bounded set
InitPrices ==
    /\ asg_name = "none"
    /\ asg = NoGroup
    /\ pc = "idle"
    /\ current_utilization = 0
    /\ signal = "none"
    /\ caps = NoGroup
    /\ instances_left = 0
    /\ idle_instances = <<>>
    /\ calls = <<>>
    /\ spot_prices = <<>>
    /\ savings_analysis = <<>>
    /\ estimated_daily_cost = 0
    /\ alerts = 0
    /\ report = NoReport
    /\ result = NoResult
    /\ idle_resources = <<>>
    /\ metrics = NoMetrics
    /\ verdict = "none"
    /\ cycle = "none"
    /\ sns_topic_arn = "none"
    /\ spot_price_analysis = <<>>
    /\ cost_insights = NoInsights
    /\ scaling_optimizations = NoScaling
    /\ recommendations = <<>>
    /\ alert_data = <<>>
    /\ published = 0
    /\ external_calls = NoCalls
    /\ spot_price_history \in SeqsUpTo(HistorySamples, MaxPriceSamples)
    /\ current_price = NoCurrent
    /\ observed = NoObserved
    /\ runs = <<>>
    /\ scaling_runs = <<>>
    /\ capacity_before = 0
    /\ document = NoDocument
    /\ validation_errors = <<>>
    /\ schedule_loop = NoSchedule
    /\ tasks = <<>>
    /\ background = {}
    /\ returned = <<>>
    /\ get_response = NoResponse
    /\ markdown_files = <<>>
    /\ validation_run = NoValidationRun

NextPrices == derive_current_prices

SpecPrices == InitPrices /\ [][NextPrices]_vars

\* both report generators run twice on every observation of the bounded sets
InitTwice ==
    /\ asg_name = "none"
    /\ asg = NoGroup
    /\ pc = "idle"
    /\ current_utilization = 0
    /\ signal = "none"
    /\ caps = NoGroup
    /\ instances_left = 0
    /\ idle_instances = <<>>
    /\ calls = <<>>
    /\ spot_prices = <<>>
    /\ savings_analysis = <<>>
    /\ estimated_daily_cost = 0
    /\ alerts = 0
    /\ report = NoReport
    /\ result = NoResult
    /\ idle_resources = <<>>
    /\ metrics = NoMetrics
    /\ verdict = "none"
    /\ cycle = "none"
    /\ sns_topic_arn = "none"
    /\ spot_price_analysis = <<>>
    /\ cost_insights = NoInsights
    /\ scaling_optimizations = NoScaling
    /\ recommendations = <<>>
    /\ alert_data = <<>>
    /\ published = 0
    /\ external_calls = NoCalls
    /\ spot_price_history = <<>>
    /\ current_price = NoCurrent
    /\ observed \in LambdaObservations \cup AutomationObservations
    /\ runs = <<>>
    /\ scaling_runs = <<>>
    /\ capacity_before = 0
    /\ document = NoDocument
    /\ validation_errors = <<>>
    /\ schedule_loop = NoSchedule
    /\ tasks = <<>>
    /\ background = {}
    /\ returned = <<>>
    /\ get_response = NoResponse
    /\ markdown_files = <<>>
    /\ validation_run = NoValidationRun

NextTwice == assemble_report

SpecTwice == InitTwice /\ [][NextTwice]_vars

\* _get_instance_metrics on every answer of MetricQueryResponses
InitMetrics ==
    /\ asg_name = "none"
    /\ asg = NoGroup
    /\ pc = "idle"
    /\ current_utilization = 0
    /\ signal = "none"
    /\ caps = NoGroup
    /\ instances_left = 0
    /\ idle_instances = <<>>
    /\ calls = <<>>
    /\ spot_prices = <<>>
    /\ savings_analysis = <<>>
    /\ estimated_daily_cost = 0
    /\ alerts = 0
    /\ report = NoReport
    /\ result = NoResult
    /\ idle_resources = <<>>
    /\ metrics = NoMetrics
    /\ verdict = "none"
    /\ cycle = "none"
    /\ sns_topic_arn = "none"
    /\ spot_price_analysis = <<>>
    /\ cost_insights = NoInsights
    /\ scaling_optimizations = NoScaling
    /\ recommendations = <<>>
    /\ alert_data = <<>>
    /\ published = 0
    /\ external_calls = NoCalls
    /\ spot_price_history = <<>>
    /\ current_price = NoCurrent
    /\ observed \in MetricQueryResponses
    /\ runs = <<>>
    /\ scaling_runs = <<>>
    /\ capacity_before = 0
    /\ document = NoDocument
    /\ validation_errors = <<>>
    /\ schedule_loop = NoSchedule
    /\ tasks = <<>>
    /\ background = {}
    /\ returned = <<>>
    /\ get_response = NoResponse
    /\ markdown_files = <<>>
    /\ validation_run = NoValidationRun

NextMetrics == collect_instance_metrics

SpecMetrics == InitMetrics /\ [][NextMetrics]_vars

\* MaxRuns runs of implement_auto_scaling on one group, in any interleaving
InitConcurrent ==
    /\ asg_name = "asg"
    /\ asg \in ConcurrentGroups
    /\ pc = "idle"
    /\ current_utilization = 0
    /\ signal = "none"
    /\ caps = NoGroup
    /\ instances_left = 0
    /\ idle_instances = <<>>
    /\ calls = <<>>
    /\ spot_prices = <<>>
    /\ savings_analysis = <<>>
    /\ estimated_daily_cost = 0
    /\ alerts = 0
    /\ report = NoReport
    /\ result = NoResult
    /\ idle_resources = <<>>
    /\ metrics = NoMetrics
    /\ verdict = "none"
    /\ cycle = "none"
    /\ sns_topic_arn = "none"
    /\ spot_price_analysis = <<>>
    /\ cost_insights = NoInsights
    /\ scaling_optimizations = NoScaling
    /\ recommendations = <<>>
    /\ alert_data = <<>>
    /\ published = 0
    /\ external_calls = NoCalls
    /\ spot_price_history = <<>>
    /\ current_price = NoCurrent
    /\ observed = NoObserved
    /\ runs = <<>>
    /\ capacity_before = asg.DesiredCapacity
    /\ scaling_runs = [r \in ScalingRuns |-> NoRun]
    /\ document = NoDocument
    /\ validation_errors = <<>>
    /\ schedule_loop = NoSchedule
    /\ tasks = <<>>
    /\ background = {}
    /\ returned = <<>>
    /\ get_response = NoResponse
    /\ markdown_files = <<>>
    /\ validation_run = NoValidationRun

NextConcurrent ==
    \/ concurrent_scaling_start
    \/ concurrent_scaling_describe
    \/ concurrent_scaling_scale_up
    \/ concurrent_scaling_check_idle
    \/ concurrent_scaling_scale_down

SpecConcurrent == InitConcurrent /\ [][NextConcurrent]_vars

\* validate_file on every document of Documents
InitValidator ==
    /\ asg_name = "none"
    /\ asg = NoGroup
    /\ pc = "idle"
    /\ current_utilization = 0
    /\ signal = "none"
    /\ caps = NoGroup
    /\ instances_left = 0
    /\ idle_instances = <<>>
    /\ calls = <<>>
    /\ spot_prices = <<>>
    /\ savings_analysis = <<>>
    /\ estimated_daily_cost = 0
    /\ alerts = 0
    /\ report = NoReport
    /\ result = NoResult
    /\ idle_resources = <<>>
    /\ metrics = NoMetrics
    /\ verdict = "none"
    /\ cycle = "none"
    /\ sns_topic_arn = "none"
    /\ spot_price_analysis = <<>>
    /\ cost_insights = NoInsights
    /\ scaling_optimizations = NoScaling
    /\ recommendations = <<>>
    /\ alert_data = <<>>
    /\ published = 0
    /\ external_calls = NoCalls
    /\ spot_price_history = <<>>
    /\ current_price = NoCurrent
    /\ observed = NoObserved
    /\ runs = <<>>
    /\ validation_errors = <<>>
    /\ document \in Documents
    /\ capacity_before = 0
    /\ scaling_runs = <<>>
    /\ schedule_loop = NoSchedule
    /\ tasks = <<>>
    /\ background = {}
    /\ returned = <<>>
    /\ get_response = NoResponse
    /\ markdown_files = <<>>
    /\ validation_run = NoValidationRun

NextValidator == validate_document

SpecValidator == InitValidator /\ [][NextValidator]_vars

\* the scheduling loop of --action schedule
InitSchedule ==
    /\ asg_name \in {"none", "asg"}
    /\ asg \in (IF asg_name = "none" THEN {NoGroup} ELSE CycleGroups)
    /\ pc = "idle"
    /\ current_utilization = 0
    /\ signal = "none"
    /\ caps = NoGroup
    /\ instances_left = 0
    /\ idle_instances = <<>>
    /\ calls = <<>>
    /\ spot_prices = <<>>
    /\ savings_analysis = <<>>
    /\ estimated_daily_cost = 0
    /\ alerts = 0
    /\ report = NoReport
    /\ result = NoResult
    /\ idle_resources = <<>>
    /\ metrics = NoMetrics
    /\ verdict = "none"
    /\ cycle = "none"
    /\ sns_topic_arn = "none"
    /\ spot_price_analysis = <<>>
    /\ cost_insights = NoInsights
    /\ scaling_optimizations = NoScaling
    /\ recommendations = <<>>
    /\ alert_data = <<>>
    /\ published = 0
    /\ external_calls = NoCalls
    /\ spot_price_history = <<>>
    /\ current_price = NoCurrent
    /\ observed = NoObserved
    /\ runs = <<>>
    /\ schedule_loop = Scheduled("none")
    /\ validation_errors = <<>>
    /\ document = NoDocument
    /\ capacity_before = 0
    /\ scaling_runs = <<>>
    /\ tasks = <<>>
    /\ background = {}
    /\ returned = <<>>
    /\ get_response = NoResponse
    /\ markdown_files = <<>>
    /\ validation_run = NoValidationRun

NextSchedule ==
    \/ schedule_implement_auto_scaling
    \/ implement_auto_scaling_describe
    \/ implement_auto_scaling_scale_up
    \/ implement_auto_scaling_check_idle
    \/ implement_auto_scaling_idle_loop
    \/ implement_auto_scaling_scale_down
    \/ schedule_optimize_spot_instance_pricing
    \/ schedule_cleanup_unused_resources
    \/ schedule_generate_cost_report
    \/ generate_cost_report_savings
    \/ generate_cost_report_utilization
    \/ generate_cost_report_monitor
    \/ handler_return

SpecSchedule == InitSchedule /\ [][NextSchedule]_vars

\* the crawl server from its start
InitCrawl ==
    /\ asg_name = "none"
    /\ asg = NoGroup
    /\ pc = "idle"
    /\ current_utilization = 0
    /\ signal = "none"
    /\ caps = NoGroup
    /\ instances_left = 0
    /\ idle_instances = <<>>
    /\ calls = <<>>
    /\ spot_prices = <<>>
    /\ savings_analysis = <<>>
    /\ estimated_daily_cost = 0
    /\ alerts = 0
    /\ report = NoReport
    /\ result = NoResult
    /\ idle_resources = <<>>
    /\ metrics = NoMetrics
    /\ verdict = "none"
    /\ cycle = "none"
    /\ sns_topic_arn = "none"
    /\ spot_price_analysis = <<>>
    /\ cost_insights = NoInsights
    /\ scaling_optimizations = NoScaling
    /\ recommendations = <<>>
    /\ alert_data = <<>>
    /\ published = 0
    /\ external_calls = NoCalls
    /\ spot_price_history = <<>>
    /\ current_price = NoCurrent
    /\ observed = NoObserved
    /\ runs = <<>>
    /\ get_response = NoResponse
    /\ returned = <<>>
    /\ background = {}
    /\ tasks = <<>>
    /\ schedule_loop = NoSchedule
    /\ validation_errors = <<>>
    /\ document = NoDocument
    /\ capacity_before = 0
    /\ scaling_runs = <<>>
    /\ markdown_files = <<>>
    /\ validation_run = NoValidationRun

NextCrawl ==
    \/ start_crawl
    \/ process_task_sleep
    \/ process_task_finish
    \/ get_task_status

SpecCrawl == InitCrawl /\ [][NextCrawl]_vars

\* the event loop runs every coroutine that is ready
CrawlFairness ==
    \A task_id \in TaskIds :
        /\ WF_vars(process_task_sleep_of(task_id))
        /\ WF_vars(process_task_finish_of(task_id))

SpecCrawlLive == InitCrawl /\ [][NextCrawl]_vars /\ CrawlFairness

\* main() of validate-all-docs on every workspace of up to MaxFiles files
InitValidateAll ==
    /\ asg_name = "none"
    /\ asg = NoGroup
    /\ pc = "idle"
    /\ current_utilization = 0
    /\ signal = "none"
    /\ caps = NoGroup
    /\ instances_left = 0
    /\ idle_instances = <<>>
    /\ calls = <<>>
    /\ spot_prices = <<>>
    /\ savings_analysis = <<>>
    /\ estimated_daily_cost = 0
    /\ alerts = 0
    /\ report = NoReport
    /\ result = NoResult
    /\ idle_resources = <<>>
    /\ metrics = NoMetrics
    /\ verdict = "none"
    /\ cycle = "none"
    /\ sns_topic_arn = "none"
    /\ spot_price_analysis = <<>>
    /\ cost_insights = NoInsights
    /\ scaling_optimizations = NoScaling
    /\ recommendations = <<>>
    /\ alert_data = <<>>
    /\ published = 0
    /\ external_calls = NoCalls
    /\ spot_price_history = <<>>
    /\ current_price = NoCurrent
    /\ observed = NoObserved
    /\ runs = <<>>
    /\ validation_run = [NoValidationRun EXCEPT !.pc = "start"]
    /\ markdown_files \in SeqsUpTo(MarkdownFiles, MaxFiles)
    /\ get_response = NoResponse
    /\ returned = <<>>
    /\ background = {}
    /\ tasks = <<>>
    /\ schedule_loop = NoSchedule
    /\ validation_errors = <<>>
    /\ document = NoDocument
    /\ capacity_before = 0
    /\ scaling_runs = <<>>

NextValidateAll ==
    \/ main_start
    \/ main_validate_file
    \/ main_summary

SpecValidateAll == InitValidateAll /\ [][NextValidateAll]_vars

---------------------------------------------------------------------------
(* Properties *)

AnyEmpty(m) ==
    m.GPUUtilization = <<>> \/ m.GPUMemoryUtilization = <<>> \/ m.CPUUtilization = <<>>

ScaleUpSent == \E i \in 1..Len(calls) : calls[i].branch = "scale_up"
ScaleDownSent == \E i \in 1..Len(calls) : calls[i].branch = "scale_down"
InScaleDownPath == pc \in {"ias_check_idle", "ias_idle_loop", "ias_scale_down"}

\* the recommendations of the Lambda's result, each with its group's configuration
LambdaRecommendations ==
    {[config |-> result.optimizations[i].current_config,
      activities |-> result.optimizations[i].recent_activities,
      rec |-> result.optimizations[i].recommendations[j]] :
        <<i, j>> \in {<<i, j>> \in (1..Len(result.optimizations)) \X (1..2) :
                         j <= Len(result.optimizations[i].recommendations)}}

\* C1: whenever at least one of the three metric sequences handed to
\* _is_instance_idle is empty, the verdict is 'not idle', whatever the other
\* two sequences hold.
C1_AnyEmptyMetricIsNotIdle ==
    (verdict \in {"idle", "not_idle"} /\ AnyEmpty(metrics)) => verdict = "not_idle"

\* C2, as claimed: no set_desired_capacity call is ever sent to the auto-scaling
\* API without an explicit confirmation before it. Neither script has a
\* confirmation step, so every call sent is an unconfirmed one.
C2_NoUnconfirmedMutation == calls = <<>>

\* C2, amended: an invocation of the Lambda only returns its recommendations
\* and sends no set_desired_capacity call; the calls that are sent come from
\* implement_auto_scaling of the automation script, which applies its decision
\* directly.
C2_LambdaIsAdvisoryOnly ==
    /\ result.kind # "none" => calls = <<>>
    /\ calls # <<>> => (result.kind = "none" /\ caps # NoGroup)

\* C2 witness: the Lambda returned a capacity recommendation and sent nothing.
C2_Witness ==
    /\ pc = "done"
    /\ calls = <<>>
    /\ \E r \in LambdaRecommendations : r.rec.type = "reduce_capacity"

\* C3: when the metrics call for the observed instance returned no datapoint or
\* failed, the run neither enters the scale-down path nor puts a 'low GPU
\* utilization' recommendation into its report.
C3_MissingSignalIsUnknown ==
    signal \in {"empty", "failed"} =>
        /\ ~InScaleDownPath
        /\ ~ScaleDownSent
        /\ \A i \in 1..Len(report.recommendations) :
              report.recommendations[i].kind # "low_gpu_utilization"

\* C4: when all three metric sequences are non-empty, the verdict is 'idle'
\* exactly when the GPU average is below 5, the GPU memory average below 10 and
\* the CPU average below 10; an average equal to its threshold is 'not idle'.
C4_IdleIffAllAveragesBelow ==
    (verdict \in {"idle", "not_idle"} /\ ~AnyEmpty(metrics)) =>
        (verdict = "idle" <=>
            /\ SeqSum(metrics.GPUUtilization) < 5 * Len(metrics.GPUUtilization)
            /\ SeqSum(metrics.GPUMemoryUtilization) < 10 * Len(metrics.GPUMemoryUtilization)
            /\ SeqSum(metrics.CPUUtilization) < 10 * Len(metrics.CPUUtilization))

\* C4 witness: gpu=[2,3,4], gpu_mem=[5,6], cpu=[1,2] was classified idle.
C4_Witness == metrics = ExampleMetrics /\ verdict = "idle"

\* C5: implement_auto_scaling is about to lower, or has lowered, the desired
\* capacity only when the idle check of the same run found at least one
\* instance of the group idle, each from datapoints it observed whose average
\* is below the scale-down threshold.
C5_ScaleDownNeedsConfirmedIdle ==
    (pc = "ias_scale_down" \/ ScaleDownSent) =>
        /\ Len(idle_instances) > 0
        /\ \A i \in 1..Len(idle_instances) :
              idle_instances[i].observed > 0 /\ idle_instances[i].below

\* C5 witness: a scale-down call was sent in a run whose utilization was observed.
C5_Witness == ScaleDownSent /\ signal = "observed" /\ pc = "done"

\* C6: the result of optimize_auto_scaling holds a capacity-reduction
\* recommendation only when the idle detector confirmed at least one idle
\* resource in the same invocation.
C6_ReduceNeedsConfirmedIdle ==
    (\E r \in LambdaRecommendations : r.rec.type = "reduce_capacity") =>
        idle_resources # <<>>

\* C7: when the desired capacity read equals the max size, implement_auto_scaling
\* neither reaches nor sends the scale-up call, and no recommendation of
\* optimize_auto_scaling proposes a desired capacity above the current one.
C7_NoScaleUpAtMax ==
    /\ caps.DesiredCapacity = caps.MaxSize => (pc # "ias_scale_up" /\ ~ScaleUpSent)
    /\ \A r \in LambdaRecommendations :
          (r.config.DesiredCapacity = r.config.MaxSize /\ r.rec.type = "reduce_capacity")
              => r.rec.recommended <= r.config.DesiredCapacity

\* C7 witness: a run read desired = max with the utilization above the target
\* and ended without a call.
C7_Witness ==
    /\ pc = "done"
    /\ caps.MaxSize > 0
    /\ caps.DesiredCapacity = caps.MaxSize
    /\ signal = "observed"
    /\ current_utilization > target_utilization
    /\ calls = <<>>

\* C8: when the desired capacity equals the min size, implement_auto_scaling
\* neither enters the scale-down path nor sends the scale-down call, and
\* optimize_auto_scaling recommends no capacity reduction, whatever the
\* utilization and the scaling activities.
C8_NoScaleDownAtMin ==
    /\ (caps # NoGroup /\ caps.DesiredCapacity = caps.MinSize) =>
          (~InScaleDownPath /\ ~ScaleDownSent)
    /\ \A r \in LambdaRecommendations :
          r.config.DesiredCapacity = r.config.MinSize => r.rec.type # "reduce_capacity"

\* C8 witness: the Lambda looked at a group with desired = min and no recent
\* scale-up activity, and its entry holds no recommendation.
C8_Witness ==
    /\ pc = "done"
    /\ Len(result.optimizations) = 1
    /\ result.optimizations[1].current_config.DesiredCapacity =
           result.optimizations[1].current_config.MinSize
    /\ result.optimizations[1].current_config.MaxSize > 0
    /\ result.optimizations[1].recent_activities.scale_ups = 0
    /\ result.optimizations[1].recommendations = <<>>

Abs(x) == IF x < 0 THEN -x ELSE x

\* every desired-capacity value sent or recommended is one unit away from the
\* desired capacity read, and within [min, max]
DesiredCapacityUnitSteps ==
    /\ \A i \in 1..Len(calls) :
          /\ Abs(calls[i].DesiredCapacity - caps.DesiredCapacity) = 1
          /\ caps.MinSize <= calls[i].DesiredCapacity
          /\ calls[i].DesiredCapacity <= caps.MaxSize
    /\ \A r \in LambdaRecommendations :
          r.rec.type = "reduce_capacity" =>
              /\ r.rec.current = r.config.DesiredCapacity
              /\ r.rec.recommended = r.rec.current - 1
              /\ r.config.MinSize <= r.rec.recommended
              /\ r.rec.recommended <= r.config.MaxSize

\* C9, as claimed: every desired-capacity value sent or recommended is a unit
\* step within bounds, and no capacity figure of any recommendation changes by
\* more than one unit.
C9_EveryFigureUnitStep ==
    /\ DesiredCapacityUnitSteps
    /\ \A r \in LambdaRecommendations : Abs(r.rec.recommended - r.rec.current) <= 1

\* C9, amended: every desired-capacity value sent or recommended is a unit step
\* within bounds; the max-size figure of an increase_max_capacity recommendation
\* is raised by up to two units and never beyond 10.
C9_DesiredCapacityUnitStep ==
    /\ DesiredCapacityUnitSteps
    /\ \A r \in LambdaRecommendations :
          r.rec.type = "increase_max_capacity" =>
              /\ r.rec.current = r.config.MaxSize
              /\ r.rec.recommended - r.rec.current \in {1, 2}
              /\ r.rec.recommended <= 10

\* C9 witness: desired=3, min=1, max=5 at 85% utilization gave the call for 4.
C9_Witness ==
    /\ caps = [MinSize |-> 1, DesiredCapacity |-> 3, MaxSize |-> 5]
    /\ current_utilization = 85
    /\ calls = <<[DesiredCapacity |-> 4, branch |-> "scale_up"]>>

\* C10: with the utilization equal to the target threshold no scale-up is
\* reached or sent, and with the utilization equal to the low threshold no
\* scale-down path is entered and no scale-down is sent, for every group.
C10_StrictThresholds ==
    /\ current_utilization = 70 => (pc # "ias_scale_up" /\ ~ScaleUpSent)
    /\ current_utilization = 20 => (~InScaleDownPath /\ ~ScaleDownSent)

\* C10 witness: a run observed exactly 70% on a group with room to grow and
\* ended without a call.
C10_Witness ==
    /\ pc = "done"
    /\ signal = "observed"
    /\ current_utilization = 70
    /\ caps.DesiredCapacity < caps.MaxSize
    /\ calls = <<>>

\* C11: a run of implement_auto_scaling sends at most one set_desired_capacity
\* call, and none when the utilization lies in [20, 70] or when the bound in
\* the direction of the change is already reached; optimize_auto_scaling puts
\* at most one recommendation into the entry of each group.
C11_AtMostOneRecommendation ==
    /\ Len(calls) <= 1
    /\ calls # <<>> => (current_utilization < 20 \/ current_utilization > 70)
    /\ ScaleUpSent => caps.DesiredCapacity < caps.MaxSize
    /\ ScaleDownSent => caps.DesiredCapacity > caps.MinSize
    /\ \A i \in 1..Len(result.optimizations) :
          Len(result.optimizations[i].recommendations) <= 1

\* C11 witness: a group with room on both sides and more scale-ups than
\* scale-downs got exactly one recommendation.
C11_Witness ==
    /\ pc = "done"
    /\ Len(result.optimizations) = 1
    /\ result.optimizations[1].current_config.DesiredCapacity >
           result.optimizations[1].current_config.MinSize
    /\ result.optimizations[1].recent_activities.scale_ups >
           result.optimizations[1].recent_activities.scale_downs
    /\ Len(result.optimizations[1].recommendations) = 1

\* the invocation returned the comprehensive report
ReportReturned == pc = "done" /\ result.kind = "report"

\* a call of the price stage raised in this invocation
PriceStageFailed ==
    \/ external_calls.az = "raise"
    \/ \E i \in 1..Len(external_calls.spot) : external_calls.spot[i] = "raise"

\* the idle, cost and scaling sections of the report are filled in
OtherSectionsPopulated ==
    /\ external_calls.instances = "ok"
    /\ cost_insights.kind # "none"
    /\ scaling_optimizations.kind # "none"

\* C12: in a run of generate_comprehensive_report, when a call of the price
\* stage raised (the zone lookup included) and the calls of the other stages
\* did not, the failure is recorded as an error entry of the report's price
\* section and the idle, cost and scaling sections are filled in.
C12_PriceFailureIsCaptured ==
    (pc = "done" /\ PriceStageFailed /\ external_calls.instances # "raise") =>
        /\ result.kind = "report"
        /\ \E i \in 1..Len(spot_price_analysis) : spot_price_analysis[i].kind = "error"
        /\ OtherSectionsPopulated

\* C13: analyze_spot_price_trends gives every instance type of its list one
\* entry, in list order: an error entry exactly for a type whose lookup raised,
\* an analysis of the returned history for every other type; and when no call
\* outside the per-type lookups raised, the report is returned with its idle
\* and scaling sections filled in.
C13_PerTypeFailureIsolation ==
    /\ external_calls.az = "ok" =>
          /\ Len(spot_price_analysis) = Len(AnalysedTypes)
          /\ \A i \in 1..Len(AnalysedTypes) :
                /\ spot_price_analysis[i].key = AnalysedTypes[i]
                /\ spot_price_analysis[i].kind = "error"
                       <=> external_calls.spot[i] = "raise"
                /\ spot_price_analysis[i].kind = "analysis"
                       <=> external_calls.spot[i] = "ok"
    /\ (pc = "done" /\ external_calls.az = "ok" /\ external_calls.instances = "ok") =>
          (result.kind = "report" /\ OtherSectionsPopulated)

\* C13 witness: the lookup raised for the first type, the second type was
\* analysed from its price data, and the report came back with an idle
\* resource and the scaling optimizations.
C13_Witness ==
    /\ ReportReturned
    /\ external_calls.spot[1] = "raise"
    /\ spot_price_analysis[1].kind = "error"
    /\ spot_price_analysis[2].kind = "analysis"
    /\ spot_price_analysis[2].availability_zones # <<>>
    /\ idle_resources # <<>>
    /\ scaling_optimizations.kind = "optimizations"
    /\ scaling_optimizations.optimizations # <<>>

\* C14: an invocation of lambda_handler with the default action always ends
\* with the structured report and status 200, whichever external calls failed.
C14_AlwaysStructuredReport ==
    (pc = "done" /\ result.kind # "none") =>
        (result.kind = "report" /\ result.statusCode = 200)

\* the report holds a critical-priority recommendation
HasCritical == \E i \in 1..Len(recommendations) : recommendations[i].priority = "critical"

\* C15, as claimed: in a run of generate_comprehensive_report exactly one alert
\* is dispatched (published to the topic) when the report holds a critical
\* recommendation, and none otherwise.
C15_OneDispatchIffCritical ==
    ReportReturned => (published = (IF HasCritical THEN 1 ELSE 0))

\* C15, amended: send_cost_alert is called exactly once when the report holds
\* a critical recommendation and not at all otherwise, its alert_data holds
\* only critical recommendations, and it publishes at most once: once when a
\* topic is configured, never when none is.
C15_OneAlertCallIffCritical ==
    /\ Len(alert_data) <= 1
    /\ published <= Len(alert_data)
    /\ \A i \in 1..Len(alert_data) :
          /\ alert_data[i].recommendations # <<>>
          /\ \A j \in 1..Len(alert_data[i].recommendations) :
                alert_data[i].recommendations[j].priority = "critical"
    /\ ReportReturned =>
          /\ Len(alert_data) = (IF HasCritical THEN 1 ELSE 0)
          /\ published = (IF HasCritical /\ sns_topic_arn # "none" THEN 1 ELSE 0)

\* C15 witness: a report with a critical recommendation next to non-critical
\* ones, whose alert was published once.
C15_Witness ==
    /\ ReportReturned
    /\ HasCritical
    /\ Len(recommendations) >= 3
    /\ Len(alert_data) = 1
    /\ Len(alert_data[1].recommendations) = 1
    /\ published = 1

\* C19, as claimed: a cost threshold recommendation is 'critical', an idle
\* resource recommendation 'high', a spot savings recommendation 'medium', and
\* there is no other priority.
C19_PrioritiesAsClaimed ==
    \A i \in 1..Len(recommendations) :
        /\ recommendations[i].type = "cost_alert"
               => recommendations[i].priority = "critical"
        /\ recommendations[i].type = "idle_resources"
               => recommendations[i].priority = "high"
        /\ recommendations[i].type = "spot_savings"
               => recommendations[i].priority = "medium"
        /\ recommendations[i].priority \in {"critical", "high", "medium"}

\* C19, amended: a spot savings recommendation is 'high', an idle resource
\* recommendation 'medium', a cost threshold recommendation 'critical' when
\* the month's cost is above 2000 and 'warning' when it is above 1000 only;
\* the list holds the spot savings first, then the idle resources, then the
\* cost threshold.
C19_PrioritiesByKind ==
    /\ \A i \in 1..Len(recommendations) :
          /\ recommendations[i].type \in {"spot_savings", "idle_resources", "cost_alert"}
          /\ recommendations[i].type = "spot_savings"
                 => recommendations[i].priority = "high"
          /\ recommendations[i].type = "idle_resources"
                 => recommendations[i].priority = "medium"
          /\ recommendations[i].type = "cost_alert" =>
                 /\ cost_insights.current_month_cost > 1000
                 /\ recommendations[i].priority =
                        (IF cost_insights.current_month_cost > 2000
                         THEN "critical" ELSE "warning")
    /\ \A i, j \in 1..Len(recommendations) :
          i < j =>
              /\ recommendations[j].type = "spot_savings"
                     => recommendations[i].type = "spot_savings"
              /\ recommendations[i].type = "cost_alert"
                     => recommendations[j].type = "cost_alert"

\* C19 witness: a report holding a spot savings, an idle resource and a
\* warning-level cost recommendation.
C19_Witness ==
    /\ ReportReturned
    /\ \E i, j, k \in 1..Len(recommendations) :
          /\ recommendations[i].type = "spot_savings"
          /\ recommendations[j].type = "idle_resources"
          /\ recommendations[k].type = "cost_alert"
          /\ recommendations[k].priority = "warning"

\* C16: one run of run_optimization_cycle raises the cost alert at most once.
C16_AtMostOneAlertPerCycle == cycle # "none" => alerts <= 1

\* C17: in every report of generate_cost_report, the spot price each savings
\* entry was computed from equals the price the report lists for that type,
\* and the estimated daily cost is 24 times the listed price of the configured
\* instance type, even when the provider's prices change during the run.
C17_SameRunDerivable ==
    report.generated =>
        /\ \A i \in 1..Len(report.savings_analysis) :
              HasKey(report.spot_prices, report.savings_analysis[i].key) =>
                  report.savings_analysis[i].spot_price =
                      Lookup(report.spot_prices, report.savings_analysis[i].key).price
        /\ HasKey(report.spot_prices, "g4dn.xlarge") =>
              report.estimated_daily_cost =
                  24 * Lookup(report.spot_prices, "g4dn.xlarge").price

\* the samples of the history that carry the given type, or the given zone
SamplesOfType(t) ==
    {j \in 1..Len(spot_price_history) : spot_price_history[j].InstanceType = t}
SamplesOfZone(z) ==
    {j \in 1..Len(spot_price_history) : spot_price_history[j].AvailabilityZone = z}

\* p is the price of a sample of S that no sample of S is later than
IsLatestPrice(p, S) ==
    \E j \in S :
        /\ spot_price_history[j].SpotPrice = p
        /\ \A k \in S : spot_price_history[k].Timestamp
                             <= spot_price_history[j].Timestamp

\* C18: the current price reported for an instance type (automation script)
\* and for a zone of an instance type (Lambda) is the price of a sample with
\* the highest timestamp among that key's samples, whatever the order of the
\* history.
C18_CurrentPriceIsLatest ==
    pc = "done" =>
        /\ \A i \in 1..Len(current_price.automation) :
              IsLatestPrice(current_price.automation[i].price,
                            SamplesOfType(current_price.automation[i].key))
        /\ \A i \in 1..Len(current_price.lambda) :
              IsLatestPrice(current_price.lambda[i].current_price,
                            SamplesOfZone(current_price.lambda[i].key))

---------------------------------------------------------------------------
\* an external call of the stage the action selected failed: the body is the
\* {'error': ...} of a handler, or a section or a type entry of it is
SelectedStageFailed ==
    \/ result.kind = "error"
    \/ result.kind = "price_analysis"
         /\ \E i \in 1..Len(external_calls.spot) : external_calls.spot[i] = "raise"
    \/ result.kind = "report"
         /\ \/ cost_insights.kind = "error"
            \/ scaling_optimizations.kind = "error"
            \/ \E i \in 1..Len(external_calls.spot) : external_calls.spot[i] = "raise"

\* C21: for every action, lambda_handler answers 200 exactly when the selected
\* stage succeeded and 500 whenever an external call of that stage failed.
C21_StatusReflectsOutcome ==
    pc = "done" /\ result.statusCode # 0 =>
        (result.statusCode = 200 <=> ~SelectedStageFailed)

---------------------------------------------------------------------------
\* samples are the averages of all of points, arranged by Timestamp ascending
IsAscendingArrangement(samples, points) ==
    /\ Len(samples) = Len(points)
    /\ \E p \in [1..Len(points) -> 1..Len(points)] :
          /\ \A i, j \in 1..Len(points) : i # j => p[i] # p[j]
          /\ \A i \in 1..Len(points) : samples[i] = points[p[i]].Average
          /\ \A i, j \in 1..Len(points) :
                i < j => points[p[i]].Timestamp <= points[p[j]].Timestamp

MetricNames == {"GPUUtilization", "GPUMemoryUtilization", "CPUUtilization"}

\* C22: every sequence _get_instance_metrics returns holds the averages in
\* ascending order of their timestamps, whatever the order of the response;
\* no datapoints or a failed query give the empty sequence.
C22_SamplesAscendingByTimestamp ==
    pc = "done" =>
        \A name \in MetricNames :
            IF observed[name].ok
            THEN IsAscendingArrangement(metrics[name], observed[name].Datapoints)
            ELSE metrics[name] = <<>>

C22_Witness ==
    /\ pc = "done"
    /\ observed.GPUUtilization.ok
    /\ observed.GPUUtilization.Datapoints =
           <<[Timestamp |-> 2, Average |-> 1], [Timestamp |-> 1, Average |-> 12]>>
    /\ metrics.GPUUtilization = <<12, 1>>
    /\ observed.GPUMemoryUtilization = [ok |-> TRUE, Datapoints |-> <<>>]
    /\ metrics.GPUMemoryUtilization = <<>>
    /\ ~observed.CPUUtilization.ok
    /\ metrics.CPUUtilization = <<>>

---------------------------------------------------------------------------
AllRunsReturned == \A r \in ScalingRuns : scaling_runs[r].pc = "done"

\* C23: whatever the interleaving of the concurrent runs, DesiredCapacity stays
\* within [MinSize, MaxSize] and, once all runs have returned, is at most one
\* unit away from its value before the runs.
C23_ConcurrentRunsOneStep ==
    /\ asg.MinSize <= asg.DesiredCapacity /\ asg.DesiredCapacity <= asg.MaxSize
    /\ AllRunsReturned => Abs(asg.DesiredCapacity - capacity_before) <= 1

---------------------------------------------------------------------------
\* C24: validate_file returns no error for the valid technical document: valid
\* model requirements, null context-chain links, valid timestamps, version,
\* category, status, revision_id and abstract, a null parent_doc and the three
\* technical sections.
C24_ValidTechnicalDocPasses ==
    pc = "done" /\ document = ValidTechnicalDocument => validation_errors = <<>>

Reports(message) ==
    \E i \in 1..Len(validation_errors) : validation_errors[i] = message

ModelRequirementsOf(doc) ==
    GetBlock(GetBlock(doc.front_matter, "ai_context"), "model_requirements")

\* C25: with parseable front matter and a non-empty model_requirements block,
\* 'Invalid context_window' is reported exactly when context_window is missing
\* or not one of the valid windows, whatever the other fields hold.
C25_ContextWindowErrorIffInvalid ==
    pc = "done" /\ document.exists /\ ModelRequirementsOf(document) # <<>> =>
        (Reports("Invalid context_window")
            <=> ~member(Get(ModelRequirementsOf(document), "context_window"),
                        VALID_CONTEXT_WINDOWS))

---------------------------------------------------------------------------
\* C26: every report generated in the cycle can be written as JSON, also when
\* the spot-price lookup returned price samples.
C26_EveryReportIsSerializable == report.generated => json_serializable(report)

---------------------------------------------------------------------------
\* C27: whatever the external calls give, every scheduled job returns without
\* raising, so the scheduling loop is never stopped by a job.
C27_LoopNeverStoppedByJob == schedule_loop.state # "stopped"

---------------------------------------------------------------------------
WasReturned(task_id) == \E i \in 1..Len(returned) : returned[i] = task_id

Finished(task_id) ==
    task_id \in DOMAIN tasks /\ tasks[task_id].status \in {"completed", "failed"}

\* C28: a task is 'processing' when POST /crawl returns its id, it eventually
\* is 'completed' or 'failed', and from then on its entry never changes.
C28_TaskLifecycle ==
    /\ [][Len(returned') > Len(returned) =>
             LET task_id == returned'[Len(returned')]
             IN  task_id \in DOMAIN tasks' /\ tasks'[task_id] = processing_entry]_vars
    /\ \A task_id \in TaskIds : WasReturned(task_id) ~> Finished(task_id)
    /\ [][\A task_id \in TaskIds :
             Finished(task_id) =>
                 task_id \in DOMAIN tasks' /\ tasks'[task_id] = tasks[task_id]]_vars

C28_Witness ==
    \E a, b \in DOMAIN tasks :
        /\ WasReturned(a) /\ tasks[a] = completed_entry
        /\ WasReturned(b) /\ tasks[b] = failed_entry

\* C29: however POST /crawl requests and background completions interleave,
\* no task id is returned twice, a completion writes only the entry of its own
\* task, and GET /task/{id} answers 404 exactly for the ids never returned.
C29_DistinctIdsOwnEntryOnly ==
    /\ [](\A i, j \in 1..Len(returned) : i # j => returned[i] # returned[j])
    /\ [][\A c \in background \ background' :
             \A task_id \in DOMAIN tasks :
                 task_id # c.task_id =>
                     task_id \in DOMAIN tasks' /\ tasks'[task_id] = tasks[task_id]]_vars
    /\ [][get_response' # get_response =>
             (get_response'.status_code = 404
                 <=> ~WasReturned(get_response'.task_id))]_vars

C29_Witness ==
    /\ Len(returned) >= 2
    /\ \E a, b \in DOMAIN tasks : Finished(a) /\ tasks[b] = processing_entry
    /\ get_response.status_code = 404
    /\ ~WasReturned(get_response.task_id)

---------------------------------------------------------------------------
SomeFileHasErrors ==
    \E i \in 1..Len(markdown_files) : validate_file(markdown_files[i]) # <<>>

\* C30: for every set of markdown files, the empty one included, main() never
\* raises and returns 1 if some file has validation errors and 0 otherwise.
C30_MainReturnsExitCode ==
    /\ validation_run.pc # "raised"
    /\ validation_run.pc = "returned" =>
           validation_run.exit_code = (IF SomeFileHasErrors THEN 1 ELSE 0)

====
